---- MODULE Spec2Model ----
(***************************************************************************)
(* Model of the statement analyzer (src/src/components/StatementUploader   *)
(* .jsx): key/value normalisation, column resolution, the two format       *)
(* parsers, merchant-name cleanup and cross-file deduplication.            *)
(*                                                                         *)
(* JavaScript strings are TLA+ strings (Len, SubSeq and \o work on them);  *)
(* a cell value is a record [t, s, n]: t = "str" with text s, or           *)
(* t = "num" with n the number in hundredths (so 199.50 is n = 19950).     *)
(* An object is the sequence of its [k, v] entries in insertion order.     *)
(***************************************************************************)
EXTENDS Integers, Sequences, FiniteSets, TLC

VARIABLES
    raw,        \* SpecMerchant: the description cell handed to cleanMerchantName
    once,       \* SpecMerchant: cleanMerchantName(raw)
    twice,      \* SpecMerchant: cleanMerchantName(cleanMerchantName(raw))
    mpc,        \* SpecMerchant: position ("idle", "start", "cleaned", "recleaned")
    grid,       \* SpecParse: the file content, a sequence of rows of cells
    parsed,     \* SpecParse: what the parser returned (rows, or an error)
    ppc,        \* SpecParse: position ("idle", "start", "csv", "xlsx")
    loadedFiles, \* SpecDedup: the component's loadedFiles state
    ledger,     \* SpecDedup: allData, as the useMemo computed it
    dpc,        \* SpecDedup: position ("idle", "start", "done", "thrown")
    arg,        \* function specifications: the input handed to the function
    res,        \* function specifications: what the function returned
    fpc,        \* function specifications: position ("idle", "start", "done")
    isPro,      \* Spec: the component's isPro prop
    error,      \* Spec: the component's error state (one string)
    calls,      \* Spec: the handleFiles invocations, each with its closure
    now,        \* Spec: the clock Date.now() reads, in milliseconds
    prompted,   \* Spec: whether onUpgrade was called
    prior,      \* SpecLedger: loadedFiles and ledger before the last addition
    sessionIdRef,           \* SpecHistory: sessionIdRef.current (0 for null)
    loadingFromHistoryRef,  \* SpecHistory: loadingFromHistoryRef.current
    sessions,   \* SpecHistory: the component's sessions state
    held,       \* SpecHistory: id of the sessions entry whose loadedFiles array
                \* is the array the loadedFiles state holds (0: an array of its own)
    store,      \* SpecHistory, SpecStore: the IndexedDB object store, in key order
    saving,     \* SpecHistory: the saveSession calls whose transaction has not run
    listing,    \* SpecHistory: the getAllSessions calls that have not resolved
    restored,   \* SpecHistory: id of the session restored and still current (0: none)
    env,        \* SpecLicense: the server's process.env and what it configured
    licenses,   \* SpecLicense: the license records in Redis, by key
    outbox,     \* SpecLicense: the mails handed to the transporter
    upgradeOpen,  \* SpecModal: App's upgradeOpen state
    proEmail,   \* SpecModal: App's proEmail state
    tab,        \* SpecModal: UpgradeModal's tab state
    modalError, \* SpecModal: UpgradeModal's error state
    keyText,    \* SpecModal: ActivateTab's key state
    loading,    \* SpecModal: ActivateTab's loading state
    activated,  \* SpecModal: ActivateTab's activated state
    awaiting,   \* SpecModal: the handleActivate calls awaiting the server
    timers,     \* SpecModal: the timeouts set and not fired yet
    license,    \* SpecModal: the record of the browser's license store
    mounted     \* SpecModal: the mounted UpgradeModal and ActivateTab (0: none)

vars == <<raw, once, twice, mpc, grid, parsed, ppc, loadedFiles, ledger, dpc,
          arg, res, fpc, isPro, error, calls, now, prompted, prior,
          sessionIdRef, loadingFromHistoryRef, sessions, held, store, saving, listing,
          restored, env, licenses, outbox, upgradeOpen, proEmail, tab, modalError,
          keyText, loading, activated, awaiting, timers, license, mounted>>

merchantVars == <<raw, once, twice, mpc>>

parseVars == <<grid, parsed, ppc>>

dedupVars == <<loadedFiles, ledger, dpc>>

funVars == <<arg, res, fpc>>

uiVars == <<isPro, error, calls, now, prompted, prior>>

histVars == <<sessionIdRef, loadingFromHistoryRef, sessions, held, store, saving, listing,
              restored>>

licVars == <<env, licenses, outbox>>

modalVars == <<upgradeOpen, proEmail, tab, modalError, keyText, loading, activated,
               awaiting, timers, license, mounted>>

appVars == <<histVars, licVars, modalVars>>

(***************************************************************************)
(* Characters and strings                                                  *)
(***************************************************************************)
LowerAlpha == "abcdefghijklmnopqrstuvwxyz"
UpperAlpha == "ABCDEFGHIJKLMNOPQRSTUVWXYZ"
DigitChars == "0123456789"

Ch(s, i) == SubSeq(s, i, i)

CharsOf(s) == {Ch(s, i) : i \in 1..Len(s)}

Lowers == CharsOf(LowerAlpha)
Uppers == CharsOf(UpperAlpha)
Digits == CharsOf(DigitChars)
Spaces == {" "}
WordChars == Lowers \cup Uppers \cup Digits \cup {"_"}

IndexIn(alpha, c) == CHOOSE i \in 1..Len(alpha) : Ch(alpha, i) = c

LowerOf == [c \in Uppers |-> Ch(LowerAlpha, IndexIn(UpperAlpha, c))]

UpperOf == [c \in Lowers |-> Ch(UpperAlpha, IndexIn(LowerAlpha, c))]

ToLowerCh(c) == IF c \in Uppers THEN LowerOf[c] ELSE c

ToUpperCh(c) == IF c \in Lowers THEN UpperOf[c] ELSE c

RECURSIVE ToLower(_)
ToLower(s) == IF s = "" THEN "" ELSE ToLowerCh(Ch(s, 1)) \o ToLower(Tail(s))

RECURSIVE ToUpper(_)
ToUpper(s) == IF s = "" THEN "" ELSE ToUpperCh(Ch(s, 1)) \o ToUpper(Tail(s))

RECURSIVE TrimStart(_)
TrimStart(s) == IF s # "" /\ Ch(s, 1) \in Spaces THEN TrimStart(Tail(s)) ELSE s

RECURSIVE TrimEnd(_)
TrimEnd(s) ==
    IF s # "" /\ Ch(s, Len(s)) \in Spaces THEN TrimEnd(SubSeq(s, 1, Len(s) - 1)) ELSE s

Trim(s) == TrimEnd(TrimStart(s))

StartsWith(s, p) == Len(p) <= Len(s) /\ SubSeq(s, 1, Len(p)) = p

Slice(s, from, to) == SubSeq(s, from + 1, IF to < Len(s) THEN to ELSE Len(s))

\* s.replace(/\*/g, '')
RECURSIVE StripStars(_)
StripStars(s) ==
    IF s = "" THEN ""
    ELSE (IF Ch(s, 1) = "*" THEN "" ELSE Ch(s, 1)) \o StripStars(Tail(s))

\* s.replace(/\s+/g, ' ') and s.replace(/\s{2,}/g, ' '): with the blank as the only
\* white-space character both collapse every run of blanks to one blank
RECURSIVE CollapseSpaces(_)
CollapseSpaces(s) ==
    IF Len(s) < 2 THEN s
    ELSE IF Ch(s, 1) \in Spaces /\ Ch(s, 2) \in Spaces THEN CollapseSpaces(Tail(s))
    ELSE Ch(s, 1) \o CollapseSpaces(Tail(s))

\* s.padStart(2, '0')
PadStart2(s) == IF Len(s) < 2 THEN SubSeq("00", 1, 2 - Len(s)) \o s ELSE s

RECURSIVE NatToStr(_)
NatToStr(n) ==
    IF n < 10 THEN Ch(DigitChars, n + 1)
    ELSE NatToStr(n \div 10) \o Ch(DigitChars, (n % 10) + 1)

(***************************************************************************)
(* Regular expressions.  A pattern is a tree of the nodes below; Ends gives *)
(* every position at which a match that starts at position i can end, so    *)
(* test() is "some start has an end" and replace() takes the leftmost start *)
(* with its longest end (every repetition in the source's patterns is a     *)
(* greedy repetition of a character class, for which the longest end is the *)
(* one the JavaScript engine picks).  ci is the pattern's i flag.           *)
(***************************************************************************)
Many == 1000

Lit(w) == [op |-> "lit", w |-> w]

Cls(set, lo, hi) == [op |-> "cls", set |-> set, neg |-> FALSE, lo |-> lo, hi |-> hi]

NotCls(set, lo, hi) == [op |-> "cls", set |-> set, neg |-> TRUE, lo |-> lo, hi |-> hi]

Cat(rs) == [op |-> "cat", rs |-> rs]

Alt(rs) == [op |-> "alt", rs |-> rs]

NotAhead(r) == [op |-> "nla", rs |-> <<r>>]

WordB == [op |-> "wb"]

Bos == [op |-> "bos"]

Eos == [op |-> "eos"]

Words(ws) == Alt([i \in 1..Len(ws) |-> Lit(ws[i])])

Rx(re, ci) == [re |-> re, ci |-> ci]

RxI(re) == Rx(re, TRUE)

InClass(set, neg, c, ci) ==
    neg # (c \in set \/ (ci /\ (ToLowerCh(c) \in set \/ ToUpperCh(c) \in set)))

RECURSIVE RunLen(_, _, _, _, _, _)
RunLen(set, neg, s, i, ci, hi) ==
    IF hi = 0 \/ i > Len(s) \/ ~InClass(set, neg, Ch(s, i), ci) THEN 0
    ELSE 1 + RunLen(set, neg, s, i + 1, ci, hi - 1)

IsWordAt(s, i) == i >= 1 /\ i <= Len(s) /\ Ch(s, i) \in WordChars

\* whether the literal w stands at position i of s
LitAt(w, s, i, ci) ==
    /\ i + Len(w) - 1 <= Len(s)
    /\ \A k \in 1..Len(w) :
          IF ci THEN ToLowerCh(Ch(s, i + k - 1)) = ToLowerCh(Ch(w, k))
          ELSE Ch(s, i + k - 1) = Ch(w, k)

RECURSIVE Ends(_, _, _, _)
RECURSIVE EndsCat(_, _, _, _, _)
EndsCat(rs, k, s, P, ci) ==
    IF k > Len(rs) \/ P = {} THEN P
    ELSE EndsCat(rs, k + 1, s, UNION {Ends(rs[k], s, p, ci) : p \in P}, ci)

Ends(r, s, i, ci) ==
    CASE r.op = "lit" -> IF LitAt(r.w, s, i, ci) THEN {i + Len(r.w)} ELSE {}
      [] r.op = "cls" -> {i + n : n \in r.lo..RunLen(r.set, r.neg, s, i, ci, r.hi)}
      [] r.op = "cat" -> EndsCat(r.rs, 1, s, {i}, ci)
      [] r.op = "alt" -> UNION {Ends(r.rs[k], s, i, ci) : k \in 1..Len(r.rs)}
      [] r.op = "nla" -> IF Ends(r.rs[1], s, i, ci) = {} THEN {i} ELSE {}
      [] r.op = "wb" -> IF IsWordAt(s, i - 1) # IsWordAt(s, i) THEN {i} ELSE {}
      [] r.op = "bos" -> IF i = 1 THEN {i} ELSE {}
      [] r.op = "eos" -> IF i = Len(s) + 1 THEN {i} ELSE {}

Max(S) == CHOOSE x \in S : \A y \in S : y <= x

Min(S) == CHOOSE x \in S : \A y \in S : x <= y

\* pattern.test(s)
Test(rx, s) == \E i \in 1..(Len(s) + 1) : Ends(rx.re, s, i, rx.ci) # {}

MatchStarts(rx, s, from) == {i \in from..(Len(s) + 1) : Ends(rx.re, s, i, rx.ci) # {}}

\* s with its part from position i up to (not including) position e replaced
Splice(s, rep, i, e) == SubSeq(s, 1, i - 1) \o rep \o SubSeq(s, e, Len(s))

\* the leftmost match among the starts, with its longest end
LongestEnd(rx, s, i) == Max(Ends(rx.re, s, i, rx.ci))

ReplaceAmong(rx, s, rep, starts) ==
    IF starts = {} THEN s ELSE Splice(s, rep, Min(starts), LongestEnd(rx, s, Min(starts)))

\* s.replace(pattern, rep) for a pattern without the g flag
ReplaceFirst(rx, s, rep) == ReplaceAmong(rx, s, rep, MatchStarts(rx, s, 1))

\* s.replace(pattern, rep) for a pattern with the g flag (its matches are not empty)
RECURSIVE ReplaceAllFrom(_, _, _, _)
RECURSIVE ReplaceNext(_, _, _, _, _)
RECURSIVE ReplaceSpan(_, _, _, _, _, _)
ReplaceSpan(rx, s, rep, from, i, e) ==
    IF e = i THEN SubSeq(s, from, Len(s))
    ELSE SubSeq(s, from, i - 1) \o rep \o ReplaceAllFrom(rx, s, rep, e)

ReplaceNext(rx, s, rep, from, starts) ==
    IF starts = {} THEN SubSeq(s, from, Len(s))
    ELSE ReplaceSpan(rx, s, rep, from, Min(starts), LongestEnd(rx, s, Min(starts)))

ReplaceAllFrom(rx, s, rep, from) == ReplaceNext(rx, s, rep, from, MatchStarts(rx, s, from))

ReplaceAll(rx, s, rep) == ReplaceAllFrom(rx, s, rep, 1)

(***************************************************************************)
(* Cell values                                                             *)
(***************************************************************************)
Str(s) == [t |-> "str", s |-> s, n |-> 0]

Num(n) == [t |-> "num", s |-> "", n |-> n]

\* the outcome of a call that raised (TypeError: raw.trim is not a function)
Thrown == [t |-> "throw", s |-> "TypeError", n |-> 0]

\* JavaScript truthiness of a cell: '' and 0 are falsy
Falsy(v) == (v.t = "str" /\ v.s = "") \/ (v.t = "num" /\ v.n = 0)

\* String(v) / v.toString(): a number in hundredths prints without trailing zeros
NumText(n) ==
    LET a == IF n < 0 THEN -n ELSE n
        frac == a % 100
        body == NatToStr(a \div 100) \o
                (IF frac = 0 THEN ""
                 ELSE IF frac % 10 = 0 THEN "." \o NatToStr(frac \div 10)
                 ELSE "." \o PadStart2(NatToStr(frac)))
    IN  (IF n < 0 THEN "-" ELSE "") \o body

ToText(v) == IF v.t = "num" THEN NumText(v.n) ELSE v.s

cleanString(v) == IF v.t = "str" THEN Str(Trim(StripStars(v.s))) ELSE v

normalizeKey(k) == CollapseSpaces(ToLower(Trim(StripStars(k))))

(***************************************************************************)
(* Merchant display-name cleanup                                           *)
(***************************************************************************)
WS == Cls(Spaces, 0, Many)

Alnum == Uppers \cup Digits

MERCHANT_MAP ==
    << <<Lit("netflix"), "Netflix">>, <<Lit("spotify"), "Spotify">>,
       <<Words(<<"hotstar", "disney">>), "Disney+ Hotstar">>,
       <<Alt(<<Cat(<<Lit("amazon"), WS, Lit("prime")>>), Lit("primevideo")>>), "Amazon Prime">>,
       <<Cat(<<Lit("youtube"), WS, Lit("premium")>>), "YouTube Premium">>,
       <<Lit("zee5"), "Zee5">>, <<Lit("sonyliv"), "SonyLIV">>,
       <<Lit("render.com"), "Render.com">>, <<Lit("github"), "GitHub">>,
       <<Lit("notion"), "Notion">>, <<Lit("figma"), "Figma">>,
       <<Words(<<"openai", "chatgpt">>), "OpenAI">>, <<Lit("slack"), "Slack">>,
       <<Lit("zoom"), "Zoom">>, <<Lit("google"), "Google">>,
       <<Words(<<"microsoft", "msft">>), "Microsoft">>, <<Lit("dropbox"), "Dropbox">>,
       <<Lit("apple"), "Apple">>, <<Lit("jio"), "Jio">>, <<Lit("airtel"), "Airtel">>,
       <<Lit("bsnl"), "BSNL">>, <<Lit("vodafone"), "Vodafone">>,
       <<Cat(<<Lit("bajaj"), WS, Lit("finance")>>), "Bajaj Finance">>,
       <<Lit("hdfc"), "HDFC">>, <<Lit("icici"), "ICICI">>, <<Lit("swiggy"), "Swiggy">>,
       <<Lit("zomato"), "Zomato">>, <<Lit("amazon"), "Amazon">>,
       <<Lit("flipkart"), "Flipkart">>, <<Lit("myntra"), "Myntra">>,
       <<Lit("paytm"), "Paytm">>, <<Lit("phonepe"), "PhonePe">>,
       <<Lit("razorpay"), "Razorpay">>, <<Cat(<<Lit("ola"), WordB>>), "Ola">>,
       <<Lit("uber"), "Uber">>, <<Lit("irctc"), "IRCTC">>,
       <<Lit("bookmyshow"), "BookMyShow">> >>

\* the indexes of the MERCHANT_MAP entries whose pattern matches the text
MerchantHits(text) == {k \in 1..Len(MERCHANT_MAP) : Test(RxI(MERCHANT_MAP[k][1]), text)}

\* /^([^@]{2,40})@[A-Z0-9]+[-.]?[A-Z0-9]*[-.]?[A-Z0-9]*/i
UpiRe ==
    RxI(Cat(<<Bos, NotCls({"@"}, 2, 40), Lit("@"), Cls(Alnum, 1, Many),
              Cls({"-", "."}, 0, 1), Cls(Alnum, 0, Many),
              Cls({"-", "."}, 0, 1), Cls(Alnum, 0, Many)>>))

\* upiMatch[1]: the text before the first @
UpiGroup1(s) == SubSeq(s, 1, Min({i \in 1..Len(s) : Ch(s, i) = "@"}) - 1)

UpiSuffixRe ==
    RxI(Cat(<<Lit("-"),
              Words(<<"GPAY", "PAYTM", "YBL", "OKAXIS", "OKSBI", "OKICICI", "OKHDFCBANK",
                      "YESB", "IDFCFIRST", "INDUS", "FEDERAL", "AXIS", "SBI", "HDFC",
                      "ICICI", "KOTAK">>),
              Eos>>))

\* /[\-_]([A-Z0-9]{8,})$/i
UpiTokenRe == RxI(Cat(<<Cls({"-", "_"}, 1, 1), Cls(Alnum, 8, Many), Eos>>))

\* /[_-]/g
DashRe == Rx(Cls({"_", "-"}, 1, 1), FALSE)

\* name.replace(/\b\w/g, c => c.toUpperCase())
RECURSIVE TitleFrom(_, _)
TitleFrom(s, i) ==
    IF i > Len(s) THEN ""
    ELSE (IF IsWordAt(s, i) /\ ~IsWordAt(s, i - 1) THEN ToUpperCh(Ch(s, i)) ELSE Ch(s, i))
         \o TitleFrom(s, i + 1)

TitleCase(s) == TitleFrom(s, 1)

UpiName(s) ==
    Trim(CollapseSpaces(ReplaceAll(DashRe,
        ReplaceFirst(UpiTokenRe, ReplaceFirst(UpiSuffixRe, UpiGroup1(s), ""), ""), " ")))

\* /^(GPAY|PHONEPE|PAYTM|BHIM)[\s@-]+/i
AppPrefixRe ==
    RxI(Cat(<<Bos, Words(<<"GPAY", "PHONEPE", "PAYTM", "BHIM">>),
              Cls(Spaces \cup {"@", "-"}, 1, Many)>>))

\* /^\d+\s+/i
LeadIdRe == RxI(Cat(<<Bos, Cls(Digits, 1, Many), Cls(Spaces, 1, Many)>>))

\* /^(UPI|IMPS|NEFT|RTGS|ACH\s*DR|IB\s*BILLPAY\s*DR)[-\s:]+/i
BankPrefixRe ==
    RxI(Cat(<<Bos,
              Alt(<<Lit("UPI"), Lit("IMPS"), Lit("NEFT"), Lit("RTGS"),
                    Cat(<<Lit("ACH"), WS, Lit("DR")>>),
                    Cat(<<Lit("IB"), WS, Lit("BILLPAY"), WS, Lit("DR")>>)>>),
              Cls(Spaces \cup {"-", ":"}, 1, Many)>>))

\* /^(EAW|ATW|NWD|IWD)[-\s][^-]+-[^-]+-/i
AtmPrefixRe ==
    RxI(Cat(<<Bos, Words(<<"EAW", "ATW", "NWD", "IWD">>), Cls(Spaces \cup {"-"}, 1, 1),
              NotCls({"-"}, 1, Many), Lit("-"), NotCls({"-"}, 1, Many), Lit("-")>>))

\* /^POS\s+[\dX\s]*/i
PosPrefixRe ==
    RxI(Cat(<<Bos, Lit("POS"), Cls(Spaces, 1, Many),
              Cls(Digits \cup Spaces \cup {"X"}, 0, Many)>>))

\* /^\d+[-\s]+/i
LeadDigitsRe == RxI(Cat(<<Bos, Cls(Digits, 1, Many), Cls(Spaces \cup {"-"}, 1, Many)>>))

\* /[-_][\dX]{6,}/g
MaskedIdRe == Rx(Cat(<<Cls({"-", "_"}, 1, 1), Cls(Digits \cup {"X"}, 6, Many)>>), FALSE)

\* /@[\w.-]+$/i
HandleRe == RxI(Cat(<<Lit("@"), Cls(WordChars \cup {".", "-"}, 1, Many), Eos>>))

\* /-?(UTIB|KKBK|SBIN|HDFC|ICIC|YESB|IDFB|INDB|FDRL|AXIS|PYTM)\d*[-\w]*/gi
IfscRe ==
    RxI(Cat(<<Cls({"-"}, 0, 1),
              Words(<<"UTIB", "KKBK", "SBIN", "HDFC", "ICIC", "YESB", "IDFB", "INDB",
                      "FDRL", "AXIS", "PYTM">>),
              Cls(Digits, 0, Many), Cls(WordChars \cup {"-"}, 0, Many)>>))

StripPrefixes(s0) ==
    LET s1 == ReplaceFirst(AppPrefixRe, s0, "")
        s2 == ReplaceFirst(LeadIdRe, s1, "")
        s3 == ReplaceFirst(BankPrefixRe, s2, "")
        s4 == ReplaceFirst(AtmPrefixRe, s3, "")
        s5 == ReplaceFirst(PosPrefixRe, s4, "")
        s6 == ReplaceFirst(LeadDigitsRe, s5, "")
        s7 == ReplaceAll(MaskedIdRe, s6, "")
        s8 == ReplaceFirst(HandleRe, s7, "")
        s9 == ReplaceAll(IfscRe, s8, "")
    IN  Trim(CollapseSpaces(s9))

\* s.length > 2 ? s.charAt(0).toUpperCase() + s.slice(1) : raw.slice(0, 32)
CleanFallback(rawText, s) ==
    IF Len(s) > 2 THEN ToUpperCh(Ch(s, 1)) \o SubSeq(s, 2, Len(s)) ELSE Slice(rawText, 0, 32)

\* if (name.length > 2) return the title-cased name; else the prefix stripping
CleanUpiName(rawText, s0, name) ==
    IF Len(name) > 2 THEN TitleCase(name) ELSE CleanFallback(rawText, StripPrefixes(s0))

\* cleanMerchantName from "let s = raw.trim()" on, for a string raw with s0 = raw.trim()
CleanTrimmed(rawText, s0) ==
    IF Test(UpiRe, s0) THEN CleanUpiName(rawText, s0, UpiName(s0))
    ELSE CleanFallback(rawText, StripPrefixes(s0))

CleanText(rawText) == CleanTrimmed(rawText, Trim(rawText))

\* the first MERCHANT_MAP hit, else the cleanup of the text (a TypeError when raw is
\* not a string: raw.trim is not a function)
CleanAfterMap(v, hits) ==
    IF hits # {} THEN Str(MERCHANT_MAP[Min(hits)][2])
    ELSE IF v.t # "str" THEN Thrown
    ELSE Str(CleanText(v.s))

cleanMerchantName(v) ==
    IF Falsy(v) THEN Str("Unknown") ELSE CleanAfterMap(v, MerchantHits(ToText(v)))

(***************************************************************************)
(* Objects and the column resolver                                         *)
(***************************************************************************)
\* undefined (no such key) and null (no parsable amount)
Undef == [t |-> "undef", s |-> "", n |-> 0]

Null == [t |-> "null", s |-> "", n |-> 0]

Entry(k, v) == [k |-> k, v |-> v]

Keys(obj) == {obj[i].k : i \in 1..Len(obj)}

\* obj[k]
Get(obj, k) ==
    IF k \in Keys(obj) THEN obj[CHOOSE i \in 1..Len(obj) : obj[i].k = k].v ELSE Undef

IsDigits(s) == s # "" /\ \A i \in 1..Len(s) : Ch(s, i) \in Digits

RECURSIVE StrToNat(_)
StrToNat(s) ==
    IF s = "" THEN 0
    ELSE 10 * StrToNat(SubSeq(s, 1, Len(s) - 1)) + (IndexIn(DigitChars, Ch(s, Len(s))) - 1)

\* a property name that is an array index: the canonical text of a non-negative
\* integer.  An object lists such keys first, in ascending order, and the other keys
\* after them in insertion order.  (The language's limit is 2^32 - 2; names of up to
\* MaxIndexDigits digits are compared here.)
MaxIndexDigits == 9

IsIndexKey(k) ==
    /\ IsDigits(k)
    /\ (k = "0" \/ Ch(k, 1) # "0")
    /\ Len(k) <= MaxIndexDigits

\* the number of entries that stay in front of a new index key k
IndexKeysBelow(obj, k) ==
    Cardinality({i \in 1..Len(obj) : IsIndexKey(obj[i].k) /\ StrToNat(obj[i].k) < StrToNat(k)})

InsertAt(obj, e, n) == SubSeq(obj, 1, n) \o <<e>> \o SubSeq(obj, n + 1, Len(obj))

\* obj[k] = v: an existing key keeps its place, a new index key goes among the index
\* keys, any other new key goes last
Put(obj, k, v) ==
    IF k \in Keys(obj)
    THEN [i \in 1..Len(obj) |-> IF obj[i].k = k THEN Entry(k, v) ELSE obj[i]]
    ELSE IF IsIndexKey(k) THEN InsertAt(obj, Entry(k, v), IndexKeysBelow(obj, k))
    ELSE Append(obj, Entry(k, v))

RECURSIVE FromEntries(_, _, _)
FromEntries(es, i, acc) ==
    IF i > Len(es) THEN acc ELSE FromEntries(es, i + 1, Put(acc, es[i].k, es[i].v))

buildNorm(cells) ==
    FromEntries([i \in 1..Len(cells) |->
                    Entry(normalizeKey(cells[i].k), cleanString(cells[i].v))], 1, <<>>)

\* Number(cleaned) for a plain decimal with at most two decimals, in hundredths;
\* anything else is NaN
RECURSIVE StripCommas(_)
StripCommas(s) ==
    IF s = "" THEN ""
    ELSE (IF Ch(s, 1) = "," THEN "" ELSE Ch(s, 1)) \o StripCommas(Tail(s))

ToNumber(s) ==
    LET neg == StartsWith(s, "-")
        body == IF neg THEN Tail(s) ELSE s
        dots == {i \in 1..Len(body) : Ch(body, i) = "."}
        dot == IF dots = {} THEN Len(body) + 1 ELSE Min(dots)
        int == SubSeq(body, 1, dot - 1)
        frac == SubSeq(body, dot + 1, Len(body))
        mag == 100 * StrToNat(int) +
               (IF Len(frac) = 1 THEN 10 * StrToNat(frac) ELSE StrToNat(frac))
    IN  IF IsDigits(int) /\ (dots = {} \/ (IsDigits(frac) /\ Len(frac) <= 2))
        THEN Num(IF neg THEN -mag ELSE mag)
        ELSE Null

parseAmount(v) ==
    IF v.t = "num" THEN v
    ELSE IF v.t = "str"
         THEN LET cleaned == Trim(StripCommas(v.s))
              IN  IF cleaned = "" THEN Null ELSE ToNumber(cleaned)
    ELSE Null

\* k.replace(/[.()]+$/, '').trim()
RECURSIVE StripTrailingPunct(_)
StripTrailingPunct(k) ==
    IF k # "" /\ Ch(k, Len(k)) \in {".", "(", ")"}
    THEN StripTrailingPunct(SubSeq(k, 1, Len(k) - 1)) ELSE k

KeyBase(k) == Trim(StripTrailingPunct(k))

\* find / findIndex over the positions that pass the test: the first, 0 when none
FirstIndex(hits) == IF hits = {} THEN 0 ELSE Min(hits)

\* filter: the positions that pass the test, in ascending order
RECURSIVE SelectIdx(_)
SelectIdx(hits) == IF hits = {} THEN <<>> ELSE <<Min(hits)>> \o SelectIdx(hits \ {Min(hits)})

\* the first key of norm that starts with the candidate's base, 0 when none
PrefixIdx(norm, k) == FirstIndex({j \in 1..Len(norm) : StartsWith(norm[j].k, KeyBase(k))})

ColPartial(norm, keys, partial) ==
    IF partial # 0 THEN norm[PrefixIdx(norm, keys[partial])].v ELSE Undef

ColExact(norm, keys, exact) ==
    IF exact # 0 THEN Get(norm, keys[exact])
    ELSE ColPartial(norm, keys, FirstIndex({i \in 1..Len(keys) : PrefixIdx(norm, keys[i]) # 0}))

\* exact keys first (a present key wins even when its value is ''), then the
\* partial-name fallback
findColVal(norm, keys) ==
    ColExact(norm, keys, FirstIndex({i \in 1..Len(keys) : keys[i] \in Keys(norm)}))

DebitKeys ==
    <<"withdrawal amt.", "withdrawal", "debit amt.", "debit amount", "debit", "dr amt.",
      "dr", "amount", "amt">>

CreditKeys ==
    <<"deposit amt.", "deposit", "credit amt.", "credit amount", "credit", "cr amt.", "cr">>

DateKeys ==
    <<"txn date", "transaction date", "value date", "value dt", "date", "posting date",
      "book date">>

DescKeys ==
    <<"narration", "description", "desc", "remarks", "particulars", "transaction details",
      "details">>

getDebitAmt(norm) == findColVal(norm, DebitKeys)

getCreditAmt(norm) == findColVal(norm, CreditKeys)

\* a ?? b
Coalesce(a, b) == IF a.t \in {"undef", "null"} THEN b ELSE a

\* new Date(Math.round((raw - 25569) * 86400 * 1000)) read back as UTC day/month/year
ExcelDate(n) ==
    LET days == (n - 2556900) \div 100
        z == days + 719468
        era == z \div 146097
        doe == z - era * 146097
        yoe == (doe - doe \div 1460 + doe \div 36524 - doe \div 146096) \div 365
        doy == doe - (365 * yoe + yoe \div 4 - yoe \div 100)
        mp == (5 * doy + 2) \div 153
        d == doy - (153 * mp + 2) \div 5 + 1
        m == IF mp < 10 THEN mp + 3 ELSE mp - 9
        y == yoe + era * 400 + (IF m <= 2 THEN 1 ELSE 0)
    IN  PadStart2(NatToStr(d)) \o "/" \o PadStart2(NatToStr(m)) \o "/" \o NatToStr(y)

\* getTxDate after the column lookup
DateText(rawDate) ==
    IF rawDate.t = "undef" \/ Falsy(rawDate) THEN ""
    ELSE IF rawDate.t = "num" /\ rawDate.n > 100000 THEN ExcelDate(rawDate.n)
    ELSE ToText(rawDate)

getTxDate(norm) == DateText(findColVal(norm, DateKeys))

\* x || ''
OrEmpty(d) == IF d.t = "undef" \/ Falsy(d) THEN Str("") ELSE d

getTxDesc(norm) == OrEmpty(findColVal(norm, DescKeys))

(***************************************************************************)
(* Cross-file deduplication                                                *)
(***************************************************************************)
\* /^(\d{4})[-/](\d{1,2})[-/](\d{1,2})$/
IsoDateRe ==
    Rx(Cat(<<Bos, Cls(Digits, 4, 4), Cls({"-", "/"}, 1, 1), Cls(Digits, 1, 2),
             Cls({"-", "/"}, 1, 1), Cls(Digits, 1, 2), Eos>>), FALSE)

\* /^(\d{1,2})[-/.](\d{1,2})[-/.](\d{2,4})$/
DmyDateRe ==
    Rx(Cat(<<Bos, Cls(Digits, 1, 2), Cls({"-", "/", "."}, 1, 1), Cls(Digits, 1, 2),
             Cls({"-", "/", "."}, 1, 1), Cls(Digits, 2, 4), Eos>>), FALSE)

\* the three digit groups of a string that matched one of the two date patterns
DateGroups(s) ==
    LET seps == {i \in 1..Len(s) : Ch(s, i) \notin Digits}
        a == Min(seps)
        b == Max(seps)
    IN  <<SubSeq(s, 1, a - 1), SubSeq(s, a + 1, b - 1), SubSeq(s, b + 1, Len(s))>>

\* a canonicalDate that leaves a two-digit year as it is
canonicalDateShortYear(dateStr) ==
    LET s == Trim(dateStr)
        g == DateGroups(s)
    IN  IF dateStr = "" THEN ""
        ELSE IF Test(IsoDateRe, s) THEN PadStart2(g[3]) \o "/" \o PadStart2(g[2]) \o "/" \o g[1]
        ELSE IF Test(DmyDateRe, s)
             THEN PadStart2(g[1]) \o "/" \o PadStart2(g[2]) \o "/" \o g[3]
        ELSE s

canonicalDate(dateStr) ==
    LET s == Trim(dateStr)
        g == DateGroups(s)
    IN  IF dateStr = "" THEN ""
        ELSE IF Test(IsoDateRe, s) THEN PadStart2(g[3]) \o "/" \o PadStart2(g[2]) \o "/" \o g[1]
        ELSE IF Test(DmyDateRe, s)
             THEN PadStart2(g[1]) \o "/" \o PadStart2(g[2]) \o "/" \o
                  (IF Len(g[3]) = 2 THEN "20" \o g[3] ELSE g[3])
        ELSE s

\* A ledger row: the row's cells plus the reserved fields __src and __srcs, kept
\* beside the cells (no candidate column name starts with "_", so the resolver never
\* reads them).  Every row stored in loadedFiles has both set by handleFiles.
Tx(cells, src, srcs) == [cells |-> cells, src |-> src, srcs |-> srcs]

\* cleanMerchantName(getTxDesc(norm) || '') before .toLowerCase().trim()
DedupMerchant(tx) == cleanMerchantName(getTxDesc(buildNorm(tx.cells)))

\* parseAmount(getDebitAmt(norm) ?? getCreditAmt(norm))
ResolvedAmt(norm) == parseAmount(Coalesce(getDebitAmt(norm), getCreditAmt(norm)))

\* Math.round((parseAmount(getDebitAmt(norm) ?? getCreditAmt(norm)) ?? 0) * 100)
DedupAmt(tx) == Coalesce(ResolvedAmt(buildNorm(tx.cells)), Num(0)).n

DedupDate(tx) == canonicalDate(getTxDate(buildNorm(tx.cells)))

DedupDesc(tx) == Trim(ToLower(DedupMerchant(tx).s))

\* rows the code pushes unkeyed: !date && !desc
Unkeyed(date, desc) == date = "" /\ desc = ""

Keyless(tx) == Unkeyed(DedupDate(tx), DedupDesc(tx))

IntText(n) == IF n < 0 THEN "-" \o NatToStr(-n) ELSE NatToStr(n)

\* `${date}|${amt}|${desc}`
KeyText(date, amt, desc) == date \o "|" \o IntText(amt) \o "|" \o desc

DedupKey(tx) == KeyText(DedupDate(tx), DedupAmt(tx), DedupDesc(tx))

\* tx['__srcs'] ? [...tx['__srcs']] : (tx['__src'] ? [tx['__src']] : [])
InitialSrcs(tx) ==
    IF tx.srcs # <<>> THEN tx.srcs ELSE IF tx.src # "" THEN <<tx.src>> ELSE <<>>

InSeq(x, sq) == \E i \in 1..Len(sq) : sq[i] = x

\* The loop's state.  seen maps result positions to keys ("" marks an unkeyed row; a
\* key is never "" because it holds two bars).  Objects are shared, not copied, unless
\* the code copies them: shares gives, for each entry of result, the row of flat whose
\* __srcs array the entry holds (0 when the entry has an array of its own), and stored
\* is flat as the pushes onto shared arrays have left it.  row is the loop's position.
DedupStart(flat) ==
    [seen |-> <<>>, result |-> <<>>, thrown |-> FALSE,
     shares |-> <<>>, stored |-> flat, row |-> 0]

\* a loop that pushes an entry for every keyed row, seen or not
DedupAtAppending(acc, tx, key, at) ==
    [acc EXCEPT !.seen = Append(acc.seen, key),
                !.result = Append(acc.result, [tx EXCEPT !.srcs = InitialSrcs(tx)]),
                !.shares = Append(acc.shares, 0)]

\* a loop whose new entry keeps the row's own __srcs array: { ...tx } alone
DedupAtSharing(acc, tx, key, at) ==
    IF at # 0
    THEN IF tx.src # "" /\ ~InSeq(tx.src, acc.result[at].srcs)
         THEN [acc EXCEPT !.result[at].srcs = Append(acc.result[at].srcs, tx.src),
                          !.stored[acc.shares[at]].srcs =
                              Append(acc.stored[acc.shares[at]].srcs, tx.src)]
         ELSE acc
    ELSE [acc EXCEPT !.seen = Append(acc.seen, key),
                     !.result = Append(acc.result, tx),
                     !.shares = Append(acc.shares, acc.row)]

\* existing['__srcs'].push(newSrc): the entry's array, and with it the stored row
\* that shares the array
PushSrc(acc, at, src) ==
    [acc EXCEPT !.result[at].srcs = Append(acc.result[at].srcs, src),
                !.stored = IF acc.shares[at] = 0 THEN acc.stored
                           ELSE [acc.stored EXCEPT ![acc.shares[at]].srcs =
                                    Append(acc.stored[acc.shares[at]].srcs, src)]]

\* the two arms of "if (seen.has(key))": at is the position of the entry that has
\* the key, 0 when there is none.  The new entry is { ...tx, '__srcs': [...] }, a copy
\* with an array of its own.
DedupAt(acc, tx, key, at) ==
    IF at # 0
    THEN IF tx.src # "" /\ ~InSeq(tx.src, acc.result[at].srcs)
         THEN PushSrc(acc, at, tx.src)
         ELSE acc
    ELSE [acc EXCEPT !.seen = Append(acc.seen, key),
                     !.result = Append(acc.result, [tx EXCEPT !.srcs = InitialSrcs(tx)]),
                     !.shares = Append(acc.shares, 0)]

DedupKeyed(acc, tx, key) ==
    DedupAt(acc, tx, key, FirstIndex({j \in 1..Len(acc.seen) : acc.seen[j] = key}))

\* one turn of the loop, from the three key parts; a raise in cleanMerchantName ends
\* the call
DedupRow(acc, tx, date, amt, merchant) ==
    IF merchant = Thrown THEN [acc EXCEPT !.thrown = TRUE]
    ELSE IF Unkeyed(date, Trim(ToLower(merchant.s)))
    THEN [acc EXCEPT !.seen = Append(acc.seen, ""), !.result = Append(acc.result, tx),
                     !.shares = Append(acc.shares, acc.row)]
    ELSE DedupKeyed(acc, tx, KeyText(date, amt, Trim(ToLower(merchant.s))))

DedupStep(acc, tx) ==
    IF acc.thrown THEN acc
    ELSE DedupRow(acc, tx, DedupDate(tx), DedupAmt(tx), DedupMerchant(tx))

RECURSIVE DedupLoop(_, _, _)
DedupLoop(flat, i, acc) ==
    IF i > Len(flat) THEN acc
    ELSE DedupLoop(flat, i + 1, DedupStep([acc EXCEPT !.row = i], flat[i]))

\* the call's outcome: what it returns, or that it raised
DedupRun(flat) == DedupLoop(flat, 1, DedupStart(flat))

DedupThrows(flat) == DedupRun(flat).thrown

deduplicateData(flat) == DedupRun(flat).result

\* handleFiles: { name: file.name, data: data.map(tx => ({ ...tx, '__src': file.name,
\* '__srcs': [file.name] })) }
LoadedFile(name, rows) ==
    [name |-> name, data |-> [i \in 1..Len(rows) |-> Tx(rows[i], name, <<name>>)]]

\* loadedFiles.flatMap(f => f.data)
RECURSIVE FlatMap(_)
FlatMap(files) == IF files = <<>> THEN <<>> ELSE files[1].data \o FlatMap(Tail(files))

\* loadedFiles.length > 1 ? deduplicateData(flat) : flat
AllDataRun(files, flat) ==
    IF Len(files) > 1 THEN DedupRun(flat)
    ELSE [DedupStart(flat) EXCEPT !.result = flat,
                                  !.shares = [k \in 1..Len(flat) |-> k]]

\* loadedFiles once the rows its files hold are those of stored, in flatMap order
RECURSIVE Holding(_, _)
Holding(files, stored) ==
    IF files = <<>> THEN <<>>
    ELSE <<[files[1] EXCEPT !.data = SubSeq(stored, 1, Len(files[1].data))]>>
         \o Holding(Tail(files), SubSeq(stored, Len(files[1].data) + 1, Len(stored)))

allData(files) == AllDataRun(files, FlatMap(files)).result

(***************************************************************************)
(* Format parsers.  A file's content is a grid: a sequence of rows, each a  *)
(* sequence of cells (every cell of a CSV is a string).                     *)
(***************************************************************************)
FOOTER_KEYWORDS ==
    <<"statement summary", "opening balance", "closing balance", "generated on",
      "dr count", "cr count", "total debit", "total credit", "account summary",
      "note :", "note:", "disclaimer">>

StartsWithFooter(text) ==
    \E k \in 1..Len(FOOTER_KEYWORDS) : StartsWith(text, FOOTER_KEYWORDS[k])

\* (v || '').toString().toLowerCase().trim()
CellText(v) == IF v.t = "undef" \/ Falsy(v) THEN "" ELSE Trim(ToLower(ToText(v)))

\* the first non-empty text among the values, '' when there is none
FirstNonEmpty(vals) ==
    LET at == FirstIndex({i \in 1..Len(vals) : Len(CellText(vals[i])) > 0})
    IN  IF at = 0 THEN "" ELSE CellText(vals[at])

isSummaryTx(norm) ==
    LET desc == Trim(ToLower(ToText(getTxDesc(norm))))
        firstVal == FirstNonEmpty([i \in 1..Len(norm) |-> norm[i].v])
    IN  StartsWithFooter(desc) \/ StartsWithFooter(firstVal)

\* the object Papa.parse / the spreadsheet branch builds from a header row and a row
RECURSIVE ZipFrom(_, _, _, _)
ZipFrom(headers, row, i, obj) ==
    IF i > Len(headers) \/ i > Len(row) THEN obj
    ELSE ZipFrom(headers, row, i + 1, Put(obj, headers[i], row[i]))

RowObject(headers, row) == ZipFrom(headers, row, 1, <<>>)

\* Papa.parse(text, { header: true, skipEmptyLines: true }).data: the first line
\* names the fields, an empty line (a single empty field) is skipped.  The library
\* renames a repeated field name by appending "_" and the count of its earlier
\* occurrences.
PapaFields(names) ==
    [j \in 1..Len(names) |->
        IF \E i \in 1..(j - 1) : names[i] = names[j]
        THEN names[j] \o "_" \o NatToStr(Cardinality({i \in 1..(j - 1) : names[i] = names[j]}))
        ELSE names[j]]

PapaParse(g) ==
    LET headers == PapaFields([j \in 1..Len(g[1]) |-> g[1][j].s])
        keep == SelectIdx({i \in 2..Len(g) : g[i] # <<Str("")>>})
    IN  IF g = <<>> THEN <<>>
        ELSE [i \in 1..Len(keep) |-> RowObject(headers, g[keep[i]])]

Ok(rows) == [err |-> "", rows |-> rows]

Failed(message) == [err |-> message, rows |-> <<>>]

\* endIdx === -1 ? rows : rows.slice(0, endIdx)
CsvSlice(rows, endIdx) == IF endIdx = 0 THEN rows ELSE SubSeq(rows, 1, endIdx - 1)

CsvTruncate(rows) == CsvSlice(rows, FirstIndex({i \in 1..Len(rows) : isSummaryTx(rows[i])}))

CsvRows(data) == [i \in 1..Len(data) |-> buildNorm(data[i])]

parseCSV(g) == CsvTruncate(CsvRows(PapaParse(g)))

\* c.includes(w)
Includes(c, w) == \E i \in 1..(Len(c) - Len(w) + 1) : SubSeq(c, i, i + Len(w) - 1) = w

ExpectedHeaderWords ==
    <<"narration", "description", "desc", "amount", "withdrawal", "deposit", "date",
      "value", "transaction", "dr", "cr">>

\* rows[i].map(cell => normalizeKey((cell || '').toString()))
HeaderCells(row) ==
    [j \in 1..Len(row) |-> normalizeKey(IF Falsy(row[j]) THEN "" ELSE ToText(row[j]))]

SomeCell(cells, words) ==
    \E j \in 1..Len(cells) : \E w \in words : Includes(cells[j], w)

QualifiesAsHeader(row) ==
    LET cells == HeaderCells(row)
        hasDate == SomeCell(cells, {"date", "value"})
        hasAmt == SomeCell(cells, {"amount", "withdrawal", "deposit", "debit", "credit"})
        matchCount == Cardinality({k \in 1..Len(ExpectedHeaderWords) :
                                      SomeCell(cells, {ExpectedHeaderWords[k]})})
    IN  (hasDate /\ hasAmt) \/ matchCount >= 3

\* a discovery loop without its break: the last qualifying row wins
LastHeaderRowIdx(g) ==
    IF \E i \in 1..Len(g) : QualifiesAsHeader(g[i])
    THEN Max({i \in 1..Len(g) : QualifiesAsHeader(g[i])})
    ELSE 0

headerRowIdx(g) == FirstIndex({i \in 1..Len(g) : QualifiesAsHeader(g[i])})

isSummaryRow(row) == StartsWithFooter(FirstNonEmpty(row))

\* the filter of the spreadsheet branch: date && desc && date.length > 0 &&
\* desc.toString().trim().length > 0
NormHasDateAndDesc(norm) ==
    getTxDate(norm) # "" /\ Len(Trim(ToText(getTxDesc(norm)))) > 0

HasDateAndDesc(row) == NormHasDateAndDesc(buildNorm(row))

\* rows[headerRowIdx].map(h => normalizeKey(h))
HeaderNames(row) ==
    [j \in 1..Len(row) |-> IF row[j].t = "str" THEN normalizeKey(row[j].s) ELSE ""]

\* headers.forEach((h, idx) => { obj[h] = cleanString(row[idx]) })
SheetObject(headers, row) ==
    RowObject(headers, [j \in 1..Len(row) |-> cleanString(row[j])])

SheetKeep(objs, keep) == [i \in 1..Len(keep) |-> buildNorm(objs[keep[i]])]

SheetFilter(objs) == SheetKeep(objs, SelectIdx({i \in 1..Len(objs) : HasDateAndDesc(objs[i])}))

\* rawDataRows.slice(0, endIdx), foot = 0 when no row is a summary row
SheetUntil(headers, rawDataRows, foot) ==
    SheetFilter([i \in 1..(IF foot = 0 THEN Len(rawDataRows) ELSE foot - 1) |->
                    SheetObject(headers, rawDataRows[i])])

SheetData(headers, rawDataRows) ==
    SheetUntil(headers, rawDataRows,
               FirstIndex({i \in 1..Len(rawDataRows) : isSummaryRow(rawDataRows[i])}))

SheetFrom(g, h) ==
    IF h = 0 THEN Failed("Could not find header row in Excel file.")
    ELSE Ok(SheetData(HeaderNames(g[h]), SubSeq(g, h + 1, Len(g))))

\* the spreadsheet branch of parseFileData, from the grid sheet_to_json returned
parseSheet(g) == SheetFrom(g, headerRowIdx(g))

(***************************************************************************)
(* Direction and totals                                                    *)
(***************************************************************************)
DrCrKeys ==
    <<"dr / cr", "dr/cr", "drcr", "cr/dr", "txn type", "transaction type", "type">>

\* norm[k1] || norm[k2] || ... || ''
RECURSIVE FirstTruthy(_, _, _)
FirstTruthy(norm, keys, i) ==
    IF i > Len(keys) THEN Str("")
    ELSE IF Get(norm, keys[i]).t \in {"undef", "null"} \/ Falsy(Get(norm, keys[i]))
         THEN FirstTruthy(norm, keys, i + 1)
         ELSE Get(norm, keys[i])

\* a getDrCr that compares the letters as they are written
getDrCrAsWritten(norm) == ToText(FirstTruthy(norm, DrCrKeys, 1))

getDrCr(norm) == ToUpper(ToText(FirstTruthy(norm, DrCrKeys, 1)))

\* parseAmount(x) > 0: null compares as 0
Positive(amount) == amount.t = "num" /\ amount.n > 0

\* the columns isDebit looks at: the debit-side names without 'amount' and 'amt'
WithdrawalKeys == SubSeq(DebitKeys, 1, 7)

DebitByDrCr(norm, drcr) ==
    IF drcr # "" THEN drcr \in {"DR", "DEBIT"}
    ELSE Positive(parseAmount(findColVal(norm, WithdrawalKeys)))

isDebit(norm) == DebitByDrCr(norm, getDrCr(norm))

CreditByDrCr(norm, drcr) ==
    IF drcr # "" THEN drcr \in {"CR", "CREDIT"}
    ELSE Positive(parseAmount(getCreditAmt(norm)))

isCredit(norm) == CreditByDrCr(norm, getDrCr(norm))

\* parseAmount(x) || 0, in hundredths
AmountOrZero(amount) == IF amount.t = "num" THEN amount.n ELSE 0

\* reduce((s, n) => s + (parseAmount(...) || 0), 0) over the rows at the positions
RECURSIVE SumAt(_, _, _)
SumAt(normed, keys, at) ==
    IF at = <<>> THEN 0
    ELSE AmountOrZero(parseAmount(findColVal(normed[at[1]], keys)))
         + SumAt(normed, keys, Tail(at))

\* the totals of getUserStats from its debits and credits (positions in normed)
UserTotals(normed, debits, credits) ==
    [totalSpent |-> SumAt(normed, DebitKeys, debits),
     totalReceived |-> SumAt(normed, CreditKeys, credits),
     paymentCount |-> Len(debits),
     creditCount |-> Len(credits)]

StatsOf(normed) ==
    UserTotals(normed,
        SelectIdx({i \in 1..Len(normed) :
                      isDebit(normed[i]) /\ Positive(parseAmount(getDebitAmt(normed[i])))}),
        SelectIdx({i \in 1..Len(normed) :
                      isCredit(normed[i]) /\ Positive(parseAmount(getCreditAmt(normed[i])))}))

\* getUserStats(data): totalSpent, totalReceived, paymentCount, creditCount
getUserStats(data) == StatsOf([i \in 1..Len(data) |-> buildNorm(data[i].cells)])

(***************************************************************************)
(* Recurring payments                                                      *)
(***************************************************************************)
\* The patterns are tested on descriptions of ASCII characters; the en dash of
\* /si\s*[-–]\s*monthly/ is left out of its class.
SUBSCRIPTION_PATTERNS ==
    <<Lit("netflix"), Lit("spotify"), Lit("hotstar"), Lit("disney"),
      Cat(<<Lit("prime"), WS, Lit("video")>>), Cat(<<Lit("amazon"), WS, Lit("prime")>>),
      Cat(<<Lit("youtube"), WS, Lit("premium")>>), Lit("zee5"), Lit("sonyliv"),
      Lit("render.com"), Lit("github"), Lit("notion"), Lit("figma"), Lit("openai"),
      Lit("chatgpt"), Lit("slack"), Cat(<<WordB, Lit("zoom"), WordB>>),
      Cat(<<Lit("google"), WS, Words(<<"one", "workspace">>)>>),
      Cat(<<Lit("microsoft"), WS, Words(<<"365", "office">>)>>), Lit("dropbox"),
      Cat(<<Lit("net"), WS, Lit("banking"), WS, Lit("si")>>),
      Cat(<<Lit("standing"), WS, Lit("instruct")>>),
      Cat(<<Lit("si"), WS, Cls({"-"}, 1, 1), WS, Lit("monthly")>>),
      Cat(<<WordB, Lit("emi"), WordB>>),
      Cat(<<Lit("loan"), WS, Words(<<"emi", "inst">>)>>)>>

\* SUBSCRIPTION_PATTERNS.some(p => p.test(desc))
isLikelySubscription(desc) ==
    \E k \in 1..Len(SUBSCRIPTION_PATTERNS) : Test(RxI(SUBSCRIPTION_PATTERNS[k]), desc)

\* the filter of detectRecurring: desc && amt !== null && amt > 0
Recurs(norm) ==
    /\ ~Falsy(getTxDesc(norm))
    /\ Positive(ResolvedAmt(norm))

\* the key a description is grouped under, as if the raw description were the key
GroupKeyRaw(rawDesc) == rawDesc

\* the key a description is grouped under
GroupKey(rawDesc) == cleanMerchantName(rawDesc)

\* map[groupKey] after the transaction has been pushed: the group's txs, and its
\* rawDesc, which a description that looks like a subscription replaces
GroupWith(group, norm, desc) ==
    [rawDesc |-> IF isLikelySubscription(desc) THEN desc ELSE group.rawDesc,
     txs |-> Append(group.txs, norm)]

\* one turn of filtered.forEach; a raise in cleanMerchantName ends the call
GroupPut(acc, norm, desc, key) ==
    IF key = Thrown THEN [acc EXCEPT !.thrown = TRUE]
    ELSE [acc EXCEPT !.map =
            Put(acc.map, key.s,
                GroupWith(IF key.s \in Keys(acc.map) THEN Get(acc.map, key.s)
                          ELSE [rawDesc |-> desc, txs |-> <<>>],
                          norm, desc))]

GroupStep(acc, norm) ==
    IF acc.thrown THEN acc
    ELSE GroupPut(acc, norm, ToText(getTxDesc(norm)), GroupKey(getTxDesc(norm)))

RECURSIVE GroupLoop(_, _, _)
GroupLoop(norms, i, acc) ==
    IF i > Len(norms) THEN acc ELSE GroupLoop(norms, i + 1, GroupStep(acc, norms[i]))

\* txs.reduce((sum, tx) => sum + (parseAmount(...) || 0), 0), in hundredths
RECURSIVE GroupTotal(_)
GroupTotal(txs) ==
    IF txs = <<>> THEN 0 ELSE AmountOrZero(ResolvedAmt(txs[1])) + GroupTotal(Tail(txs))

\* what detectRecurring returns for an entry of the map
RecurringGroup(key, group) ==
    [description |-> key, rawDescription |-> group.rawDesc,
     isSubscription |-> isLikelySubscription(group.rawDesc) \/ isLikelySubscription(key),
     count |-> Len(group.txs), total |-> GroupTotal(group.txs)]

\* Object.entries(map).filter(([_, { txs }]) => txs.length > 1).map(...)
GroupsAt(map, keep) == [j \in 1..Len(keep) |-> RecurringGroup(map[keep[j]].k, map[keep[j]].v)]

Emitted(acc) ==
    [thrown |-> acc.thrown,
     groups |-> IF acc.thrown THEN <<>>
                ELSE GroupsAt(acc.map, SelectIdx({j \in 1..Len(acc.map) :
                                                   Len(acc.map[j].v.txs) > 1}))]

RecurringOf(normed, keep) ==
    Emitted(GroupLoop([j \in 1..Len(keep) |-> normed[keep[j]]], 1,
                      [map |-> <<>>, thrown |-> FALSE]))

RecurringFrom(normed) ==
    RecurringOf(normed, SelectIdx({i \in 1..Len(normed) : Recurs(normed[i])}))

\* detectRecurring(transactions): the groups, or that the call raised
detectRecurring(transactions) ==
    RecurringFrom([i \in 1..Len(transactions) |-> buildNorm(transactions[i].cells)])

(***************************************************************************)
(* File upload.  A file is a record of what the browser's File object       *)
(* holds: its name, its size in bytes, its declared media type ("" when the *)
(* browser gave none) and its content, a grid.                              *)
(***************************************************************************)
File(name, size, type, content) ==
    [name |-> name, size |-> size, type |-> type, content |-> content]

MAX_SIZE_MB == 20

allowedMime ==
    {"text/csv", "text/plain", "application/csv", "application/vnd.ms-excel",
     "application/vnd.openxmlformats-officedocument.spreadsheetml.sheet"}

\* the positions of the dots of a name
DotsOf(name) == {i \in 1..Len(name) : Ch(name, i) = "."}

\* file.name.split('.').pop().toLowerCase(): what follows the last dot, the
\* whole name when it has no dot
ExtOf(name) ==
    ToLower(IF DotsOf(name) = {} THEN name
            ELSE SubSeq(name, Max(DotsOf(name)) + 1, Len(name)))

TooLargeMessage == "File too large. Max " \o NatToStr(MAX_SIZE_MB) \o " MB."

InvalidTypeMessage == "Invalid file type. Only .csv, .xlsx, and .xls are accepted."

\* the checks of parseFileData that come before any read: the message of the
\* Error thrown, "" when the file passes
Validation(file) ==
    IF file.size > MAX_SIZE_MB * 1024 * 1024 THEN TooLargeMessage
    ELSE IF \/ ExtOf(file.name) \notin {"csv", "xlsx", "xls"}
            \/ (file.type # "" /\ file.type \notin allowedMime /\ file.type # "")
         THEN InvalidTypeMessage
         ELSE ""

\* parseFileData once the content has been read
ParseContent(file) ==
    IF ExtOf(file.name) = "csv" THEN Ok(parseCSV(file.content))
    ELSE parseSheet(file.content)

\* parseFileData(file): the rows, or the message of the Error it threw
parseFileData(file) ==
    IF Validation(file) # "" THEN Failed(Validation(file)) ELSE ParseContent(file)

\* the record handleFiles appends: `${file.name}-${Date.now()}` and the rows,
\* each tagged with the file's name
StoredFile(name, stamp, rows) ==
    [id |-> name \o "-" \o NatToStr(stamp), name |-> name,
     data |-> [i \in 1..Len(rows) |-> Tx(rows[i], name, <<name>>)]]

\* loadedFiles.some(f => f.name === file.name)
AlreadyLoaded(files, name) == \E i \in 1..Len(files) : files[i].name = name

AlreadyLoadedMessage(name) == "\"" \o name \o "\" is already loaded."

\* `"${file.name}": ${err.message}`
ParseErrorMessage(name, message) == "\"" \o name \o "\": " \o message

\* !isPro && loadedFiles.length >= 1, over the loadedFiles of the closure
FreePlanFull(pro, closure) == ~pro /\ Len(closure) >= 1

\* The loop of handleFiles from file i up to the first file whose content has
\* to be read (an await the browser completes in a later task): a file whose
\* name is already loaded, or that parseFileData rejects before reading, only
\* sets the error message.  Gives the position reached and the error state.
RECURSIVE LoopUntilRead(_, _, _, _)
LoopUntilRead(files, closure, i, message) ==
    IF i > Len(files) THEN [at |-> i, error |-> message]
    ELSE IF AlreadyLoaded(closure, files[i].name)
         THEN LoopUntilRead(files, closure, i + 1, AlreadyLoadedMessage(files[i].name))
         ELSE IF Validation(files[i]) # ""
              THEN LoopUntilRead(files, closure, i + 1,
                                 ParseErrorMessage(files[i].name, Validation(files[i])))
              ELSE [at |-> i, error |-> message]

\* a handleFiles invocation: the files of the event, the loadedFiles its
\* closure captured, and the file whose read it awaits (past the end when it
\* has returned)
Call(files, closure, at) == [files |-> files, closure |-> closure, at |-> at]

\* setLoadedFiles(prev => [...prev, {...}]) after a read that parsed, nothing
\* after one that threw
AfterParse(files, file, stamp, out) ==
    IF out.err = "" THEN Append(files, StoredFile(file.name, stamp, out.rows)) ELSE files

\* the error state after the try/catch around parseFileData
ErrorAfterParse(message, file, out) ==
    IF out.err = "" THEN message ELSE ParseErrorMessage(file.name, out.err)

\* prev.filter(f => f.id !== id)
WithoutIdAt(files, keep) == [j \in 1..Len(keep) |-> files[keep[j]]]

WithoutId(files, id) ==
    WithoutIdAt(files, SelectIdx({i \in 1..Len(files) : files[i].id # id}))

(***************************************************************************)
(* Bounded inputs                                                          *)
(***************************************************************************)
\* sequences over S of length 0..n
SeqsUpTo(S, n) == UNION {[1..k -> S] : k \in 0..n}

RECURSIVE Concat(_)
Concat(parts) == IF parts = <<>> THEN "" ELSE Head(parts) \o Concat(Tail(parts))

MaxFrags == 3

\* pieces of bank narrations: transport prefixes, payee names, handles, ids
Fragments ==
    {"UPI-", "POS ", "12 ", "john", "ab", " doe", "-GPAY", "-12345678", "@ybl", "netflix"}

\* numeric description cells, as a spreadsheet delivers them
NumberCells == {Num(0), Num(1234500), Num(9950)}

\* every description cell is stored through cleanString
RawInputs ==
    {cleanString(Str(Concat(fs))) : fs \in SeqsUpTo(Fragments, MaxFrags)} \cup NumberCells

IdleMerchant == raw = Undef /\ once = Undef /\ twice = Undef /\ mpc = "idle"

IdleParse == grid = <<>> /\ parsed = <<>> /\ ppc = "idle"

IdleDedup == loadedFiles = <<>> /\ ledger = <<>> /\ dpc = "idle"

IdleFun == arg = <<>> /\ res = <<>> /\ fpc = "idle"

IdleUi ==
    /\ isPro = FALSE /\ error = "" /\ calls = <<>> /\ now = 0
    /\ prompted = FALSE /\ prior = <<>>

IdleHist ==
    /\ sessionIdRef = 0 /\ loadingFromHistoryRef = FALSE /\ sessions = <<>> /\ held = 0
    /\ store = <<>> /\ saving = <<>> /\ listing = 0 /\ restored = 0

IdleLic == env = <<>> /\ licenses = <<>> /\ outbox = <<>>

IdleModal ==
    /\ upgradeOpen = FALSE /\ proEmail = "" /\ tab = "buy" /\ modalError = ""
    /\ keyText = "" /\ loading = FALSE /\ activated = FALSE
    /\ awaiting = <<>> /\ timers = <<>> /\ license = <<>>
    /\ mounted = [modal |-> 0, tab |-> 0]

IdleApp == IdleHist /\ IdleLic /\ IdleModal

(***************************************************************************)
(* SpecMerchant: cleanMerchantName applied to a description, then to its    *)
(* own result                                                              *)
(***************************************************************************)
InitMerchant ==
    /\ raw \in RawInputs
    /\ once = Undef /\ twice = Undef /\ mpc = "start"
    /\ IdleParse /\ IdleDedup /\ IdleFun /\ IdleUi /\ IdleApp

Clean ==
    /\ mpc = "start"
    /\ once' = cleanMerchantName(raw)
    /\ mpc' = "cleaned"
    /\ UNCHANGED <<raw, twice, parseVars, dedupVars, funVars, uiVars, appVars>>

CleanAgain ==
    /\ mpc = "cleaned"
    /\ once # Thrown
    /\ twice' = cleanMerchantName(once)
    /\ mpc' = "recleaned"
    /\ UNCHANGED <<raw, once, parseVars, dedupVars, funVars, uiVars, appVars>>

NextMerchant == Clean \/ CleanAgain

SpecMerchant == InitMerchant /\ [][NextMerchant]_vars

(***************************************************************************)
(* SpecParse: one statement file, read as a CSV and as a spreadsheet        *)
(***************************************************************************)
MaxGridRows == 5

Row3(a, b, c) == <<Str(a), Str(b), Str(c)>>

HeaderRow == Row3("Date", "Narration", "Amount")

BlankRow == Row3("", "", "")

TxRow == Row3("01/04/2025", "SWIGGY ORDER", "250")

\* a row without a date
NoDateRow == Row3("", "ATM WDL", "100")

\* a bank's summary line: the label in the first cell, the figure in the last
FooterRow == Row3("Opening Balance", "", "1000")

\* a dated balance line: the summary text sits in the description column
DatedFooterRow == Row3("02/04/2025", "Closing Balance", "1000")

RowPool == {HeaderRow, BlankRow, TxRow, NoDateRow, FooterRow, DatedFooterRow}

InitParse ==
    /\ grid \in SeqsUpTo(RowPool, MaxGridRows)
    /\ parsed = <<>> /\ ppc = "start"
    /\ IdleMerchant /\ IdleDedup /\ IdleFun /\ IdleUi /\ IdleApp

\* parseFileData for a .csv file: parseCSV(await file.text())
ParseCsv ==
    /\ ppc = "start"
    /\ parsed' = Ok(parseCSV(grid))
    /\ ppc' = "csv"
    /\ UNCHANGED <<grid, merchantVars, dedupVars, funVars, uiVars, appVars>>

\* parseFileData for a .xlsx / .xls file
ParseXlsx ==
    /\ ppc = "start"
    /\ parsed' = parseSheet(grid)
    /\ ppc' = "xlsx"
    /\ UNCHANGED <<grid, merchantVars, dedupVars, funVars, uiVars, appVars>>

NextParse == ParseCsv \/ ParseXlsx

SpecParse == InitParse /\ [][NextParse]_vars

(***************************************************************************)
(* SpecDedup: the ledger (allData) the component derives from loadedFiles   *)
(***************************************************************************)
MaxRows == 2

Row4(date, narration, withdrawal, deposit) ==
    <<Entry("date", date), Entry("narration", narration),
      Entry("withdrawal amt.", withdrawal), Entry("deposit amt.", deposit)>>

\* the rows the parsers deliver: debits, the same debit as another bank prints it,
\* credits (their withdrawal cell present and empty), a row of a CSV that carries
\* neither date nor narration, and a spreadsheet row whose narration is a number
CellPool ==
    {Row4(Str("01/04/2025"), Str("SWIGGY ORDER"), Str("250"), Str("")),
     Row4(Str("2025-04-01"), Str("POS 4XX1 SWIGGY"), Str("250.00"), Str("")),
     Row4(Str("01/04/2025"), Str("SALARY ACME"), Str(""), Str("5000")),
     Row4(Str("01/04/2025"), Str("SALARY ACME"), Str(""), Str("7,000")),
     Row4(Str(""), Str(""), Str("100"), Str("")),
     Row4(Str("01/04/2025"), Num(1234500), Num(1000), Str(""))}

Contents == SeqsUpTo(CellPool, MaxRows)

\* no file, one file, or two files with different names
InitDedup ==
    /\ loadedFiles \in
          {<<>>} \cup {<<LoadedFile("a.csv", c)>> : c \in Contents}
                 \cup {<<LoadedFile("a.csv", c), LoadedFile("b.csv", d)>> :
                          c \in Contents, d \in Contents}
    /\ ledger = <<>> /\ dpc = "start"
    /\ IdleMerchant /\ IdleParse /\ IdleFun /\ IdleUi /\ IdleApp

\* the render that follows a change of loadedFiles: the useMemo computes allData, and
\* a raise inside it ends the render
Render(run) ==
    /\ dpc = "start"
    /\ ledger' = (IF run.thrown THEN <<>> ELSE run.result)
    /\ dpc' = (IF run.thrown THEN "thrown" ELSE "done")
    /\ loadedFiles' = Holding(loadedFiles, run.stored)
    /\ UNCHANGED <<merchantVars, parseVars, funVars, uiVars, appVars>>

Recompute == Render(AllDataRun(loadedFiles, FlatMap(loadedFiles)))

NextDedup == Recompute

SpecDedup == InitDedup /\ [][NextDedup]_vars

(***************************************************************************)
(* Spec: the upload handler.  The user hands over batches of files; each    *)
(* handleFiles invocation runs up to the read it awaits, and the reads of   *)
(* different invocations complete in any order.                             *)
(***************************************************************************)
MaxCalls == 2

MaxPicked == 3

MaxNow == 2

XlsxMime == "application/vnd.openxmlformats-officedocument.spreadsheetml.sheet"

\* one byte past the ceiling
OverSize == 20 * 1024 * 1024 + 1

FilePool ==
    {File("a.csv", 2048, "text/csv", <<HeaderRow, TxRow, NoDateRow>>),
     File("b.xlsx", 4096, "", <<BlankRow, HeaderRow, TxRow>>),
     File("c.XLSX", 4096, XlsxMime, <<TxRow, NoDateRow>>),
     File("d.csv", OverSize, "text/csv", <<HeaderRow, TxRow>>),
     File("e.pdf", OverSize, "application/pdf", <<HeaderRow, TxRow>>),
     File("f.pdf", 1024, "", <<HeaderRow, TxRow>>),
     File("g.csv", 1024, "application/pdf", <<HeaderRow, TxRow>>),
     File("xls", 1024, "", <<HeaderRow, TxRow>>)}

\* the selections of one file picker event: files of distinct names
Batches ==
    {b \in SeqsUpTo(FilePool, MaxPicked) :
        b # <<>> /\ \A i, j \in 1..Len(b) : b[i].name = b[j].name => i = j}

\* the files handed over so far, in the order the user handed them over
RECURSIVE PickedFrom(_)
PickedFrom(cs) == IF cs = <<>> THEN <<>> ELSE cs[1].files \o PickedFrom(Tail(cs))

Picked == PickedFrom(calls)

\* time does not run backwards between two tasks
TimePasses == now' \in now..Min({now + 1, MaxNow})

Init ==
    /\ isPro \in BOOLEAN
    /\ loadedFiles = <<>> /\ ledger = <<>> /\ dpc = "idle"
    /\ error = "" /\ calls = <<>> /\ now = 0 /\ prompted = FALSE /\ prior = <<>>
    /\ IdleMerchant /\ IdleParse /\ IdleFun /\ IdleApp

\* handleFiles is called with a batch and runs up to its first await of a read
Started(files, reached) ==
    /\ calls' = Append(calls, Call(files, loadedFiles, reached.at))
    /\ error' = reached.error
    /\ prompted' = prompted

\* the free plan holds a file already: onUpgrade() and return
Refused(files) ==
    /\ calls' = Append(calls, Call(files, loadedFiles, Len(files) + 1))
    /\ error' = ""
    /\ prompted' = TRUE

HandleFiles ==
    \E files \in Batches :
        /\ Len(calls) < MaxCalls
        /\ Len(Picked) + Len(files) <= MaxPicked
        /\ IF FreePlanFull(isPro, loadedFiles) THEN Refused(files)
           ELSE Started(files, LoopUntilRead(files, loadedFiles, 1, ""))
        /\ TimePasses
        /\ UNCHANGED <<isPro, prior, dedupVars, merchantVars, parseVars, funVars, appVars>>

\* call c resumes with the result of parseFileData on the file it awaited and
\* runs on up to its next await
Resumed(c, file, out, reached) ==
    /\ calls' = [calls EXCEPT ![c].at = reached.at]
    /\ error' = reached.error
    /\ loadedFiles' = AfterParse(loadedFiles, file, now', out)

\* the batch given up at the first file that fails after its read
ResumeAborting(c, file, out) ==
    Resumed(c, file, out,
            IF out.err = ""
            THEN LoopUntilRead(calls[c].files, calls[c].closure, calls[c].at + 1, error)
            ELSE [at |-> Len(calls[c].files) + 1,
                  error |-> ParseErrorMessage(file.name, out.err)])

Resume(c, file, out) ==
    Resumed(c, file, out,
            LoopUntilRead(calls[c].files, calls[c].closure, calls[c].at + 1,
                          ErrorAfterParse(error, file, out)))

ReadDone ==
    \E c \in 1..Len(calls) :
        /\ calls[c].at <= Len(calls[c].files)
        /\ TimePasses
        /\ Resume(c, calls[c].files[calls[c].at], ParseContent(calls[c].files[calls[c].at]))
        /\ UNCHANGED <<isPro, prompted, prior, ledger, dpc, merchantVars, parseVars,
                       funVars, appVars>>

Next == HandleFiles \/ ReadDone

Spec == Init /\ [][Next]_vars

(***************************************************************************)
(* SpecLedger: files added and removed one at a time, the ledger recomputed *)
(* by the render that follows each change of loadedFiles                    *)
(***************************************************************************)
MaxLoaded == 2

\* the loaded sets the behaviours start from: files of FilePool loaded earlier
LoadedSets ==
    {[k \in 1..Len(b) |-> StoredFile(b[k].name, 0, parseFileData(b[k]).rows)] :
        b \in {c \in Batches : Len(c) <= MaxLoaded /\ \A k \in 1..Len(c) : parseFileData(c[k]).err = ""}}
    \cup {<<>>}

InitLedger ==
    /\ isPro \in BOOLEAN
    /\ loadedFiles \in LoadedSets
    /\ ledger = <<>> /\ dpc = "start"
    /\ error = "" /\ calls = <<>> /\ now = 0 /\ prompted = FALSE /\ prior = <<>>
    /\ IdleMerchant /\ IdleParse /\ IdleFun /\ IdleApp

\* what is remembered of an addition: loadedFiles and the ledger before it, the id
\* of the file added, and whether that file has been removed since
Addition(files, entries, id) ==
    [files |-> files, ledger |-> entries, id |-> id, removed |-> FALSE]

\* handleFiles with one file has appended it
Added(after) ==
    /\ loadedFiles' = after
    /\ prior' = Addition(loadedFiles, ledger, after[Len(after)].id)
    /\ dpc' = "start"

\* handleFiles with one file whose read completes before any other event
AddOne(file, reached, out) ==
    IF reached.at = 1
    THEN /\ error' = ErrorAfterParse(reached.error, file, out)
         /\ IF out.err = "" THEN Added(AfterParse(loadedFiles, file, now', out))
            ELSE UNCHANGED <<loadedFiles, prior, dpc>>
    ELSE error' = reached.error /\ UNCHANGED <<loadedFiles, prior, dpc>>

AddFile ==
    \E file \in FilePool :
        /\ dpc = "done"
        /\ TimePasses
        /\ IF FreePlanFull(isPro, loadedFiles)
           THEN error' = "" /\ prompted' = TRUE /\ UNCHANGED <<loadedFiles, prior, dpc>>
           ELSE /\ AddOne(file, LoopUntilRead(<<file>>, loadedFiles, 1, ""),
                          ParseContent(file))
                /\ prompted' = prompted
        /\ UNCHANGED <<isPro, calls, ledger, merchantVars, parseVars, funVars, appVars>>

\* removeFile(id) from the file's remove button
RemoveFile ==
    \E k \in 1..Len(loadedFiles) :
        /\ dpc = "done"
        /\ loadedFiles' = WithoutId(loadedFiles, loadedFiles[k].id)
        /\ prior' = (IF prior # <<>> /\ ~prior.removed /\ prior.id = loadedFiles[k].id
                     THEN [prior EXCEPT !.removed = TRUE] ELSE <<>>)
        /\ dpc' = "start"
        /\ UNCHANGED <<isPro, error, calls, now, prompted, ledger,
                       merchantVars, parseVars, funVars, appVars>>

NextLedger == Recompute \/ AddFile \/ RemoveFile

SpecLedger == InitLedger /\ [][NextLedger]_vars

(***************************************************************************)
(* SpecDate: a date cell read by getTxDate, then canonicalDate applied to    *)
(* what was read, and to its own result                                     *)
(***************************************************************************)
\* the days the cells spell: day of month, month, year of the 2000s
Days == {<<d, m, yy>> : d \in {1, 25}, m \in {4, 12}, yy \in {0, 25, 99}}

\* a number as it is printed with and without a leading zero
Printed(n) == {NatToStr(n), PadStart2(NatToStr(n))}

Year4(yy) == "20" \o PadStart2(NatToStr(yy))

\* the ways the statements print a day: year first with - or /, day first with
\* /, - or . and a year of four or two digits
Spellings(day) ==
    {Year4(day[3]) \o sep \o m \o sep \o d :
        sep \in {"-", "/"}, m \in Printed(day[2]), d \in Printed(day[1])}
    \cup {d \o sep \o m \o sep \o y :
        sep \in {"/", "-", "."}, m \in Printed(day[2]), d \in Printed(day[1]),
        y \in {Year4(day[3]), PadStart2(NatToStr(day[3]))}}

\* cells that spell no day: a spreadsheet serial (45748 is 01/04/2025), free
\* text, an empty cell
OtherDateCells == {Num(4574800), Str("1 Apr 2025"), Str(" 2025-04-01T10:00 "), Str("")}

\* the inputs: a date cell, and the day it spells (<<>> when it spells none)
DateInputs ==
    UNION {{[day |-> day, cell |-> Str(text)] : text \in Spellings(day)} : day \in Days}
    \cup {[day |-> <<>>, cell |-> cell] : cell \in OtherDateCells}

InitDate ==
    /\ arg \in DateInputs
    /\ res = <<>> /\ fpc = "start"
    /\ IdleMerchant /\ IdleParse /\ IdleDedup /\ IdleUi /\ IdleApp

\* getTxDate(buildNorm(row)) for a row whose Date column holds the cell
ReadDate ==
    /\ fpc = "start"
    /\ res' = [date |-> getTxDate(buildNorm(<<Entry("Date", arg.cell)>>)),
               canon |-> "", again |-> ""]
    /\ fpc' = "read"
    /\ UNCHANGED <<arg, merchantVars, parseVars, dedupVars, uiVars, appVars>>

\* canonicalDate(getTxDate(norm)), as deduplicateData calls it
Canonicalize ==
    /\ fpc = "read"
    /\ res' = [res EXCEPT !.canon = canonicalDate(res.date)]
    /\ fpc' = "canon"
    /\ UNCHANGED <<arg, merchantVars, parseVars, dedupVars, uiVars, appVars>>

CanonicalizeAgain ==
    /\ fpc = "canon"
    /\ res' = [res EXCEPT !.again = canonicalDate(res.canon)]
    /\ fpc' = "again"
    /\ UNCHANGED <<arg, merchantVars, parseVars, dedupVars, uiVars, appVars>>

NextDate == ReadDate \/ Canonicalize \/ CanonicalizeAgain

SpecDate == InitDate /\ [][NextDate]_vars

(***************************************************************************)
(* SpecStats: the rows of a ledger classified by isDebit and isCredit, then  *)
(* totalled by getUserStats                                                 *)
(***************************************************************************)
MaxStatRows == 2

\* a row of a statement that prints one Amount column and a direction column
AmountRow(narration, amount, column, direction) ==
    <<Entry("Date", Str("01/04/2025")), Entry("Narration", Str(narration)),
      Entry("Amount", Str(amount)), Entry(column, Str(direction))>>

\* rows with separate withdrawal and deposit columns (a debit of 500, a credit, an
\* empty row, a negative withdrawal, both columns filled), rows with one Amount
\* column and a direction column in several spellings, a direction that contradicts
\* the filled column, a Type column that is no direction, and a bare Amount column
StatPool ==
    {Row4(Str("01/04/2025"), Str("SWIGGY ORDER"), Str("500"), Str("")),
     Row4(Str("01/04/2025"), Str("SALARY ACME"), Str(""), Str("5,000.50")),
     Row4(Str("01/04/2025"), Str("NIL"), Str(""), Str("")),
     Row4(Str("01/04/2025"), Str("REVERSAL"), Str("-50"), Str("")),
     Row4(Str("01/04/2025"), Str("TRANSFER"), Num(25000), Num(10000)),
     AmountRow("RENT", "12000", "Dr/Cr", "DR"),
     AmountRow("REFUND", "199", "Dr / Cr", "cr"),
     AmountRow("INTEREST", "40", "Txn Type", "Credit"),
     AmountRow("EMI", "3000", "Type", "debit"),
     Row4(Str("01/04/2025"), Str("CHARGEBACK"), Str(""), Str("700")) \o <<Entry("DRCR", Str("DR"))>>,
     Row4(Str("01/04/2025"), Str("UPI PAYMENT"), Str("500"), Str("")) \o <<Entry("Type", Str("UPI"))>>,
     <<Entry("Date", Str("01/04/2025")), Entry("Narration", Str("CASH")), Entry("Amount", Str("300"))>>}

StatLedgers ==
    {[i \in 1..Len(rows) |-> Tx(rows[i], "a.csv", <<"a.csv">>)] :
        rows \in SeqsUpTo(StatPool, MaxStatRows) \ {<<>>}}

InitStats ==
    /\ arg \in StatLedgers
    /\ res = <<>> /\ fpc = "start"
    /\ IdleMerchant /\ IdleParse /\ IdleDedup /\ IdleUi /\ IdleApp

\* isDebit and isCredit of every row, as getUserStats asks them of buildNorm(tx)
Classify ==
    /\ fpc = "start"
    /\ res' = [flags |-> [i \in 1..Len(arg) |->
                            [debit |-> isDebit(buildNorm(arg[i].cells)),
                             credit |-> isCredit(buildNorm(arg[i].cells))]],
               stats |-> <<>>]
    /\ fpc' = "classified"
    /\ UNCHANGED <<arg, merchantVars, parseVars, dedupVars, uiVars, appVars>>

Total ==
    /\ fpc = "classified"
    /\ res' = [res EXCEPT !.stats = getUserStats(arg)]
    /\ fpc' = "totalled"
    /\ UNCHANGED <<arg, merchantVars, parseVars, dedupVars, uiVars, appVars>>

NextStats == Classify \/ Total

SpecStats == InitStats /\ [][NextStats]_vars

(***************************************************************************)
(* SpecRecurring: detectRecurring applied to a ledger                       *)
(***************************************************************************)
MaxRecurRows == 3

Debit(narration, amount) == Row4(Str("01/04/2025"), Str(narration), Str(amount), Str(""))

\* three spellings of one biller, a standing instruction and a cash withdrawal at
\* one bank, a food order, a row without description, and a refund whose
\* withdrawal cell is present and empty
RecurPool ==
    {Debit("NETFLIX.COM", "199"), Debit("POS NETFLIX COM 998877", "199"),
     Debit("UPI-NETFLIX@OKSBI", "649"), Debit("NET BANKING SI HDFC", "1500"),
     Debit("HDFC BANK ATM WDL", "2000"), Debit("SWIGGY ORDER", "250"),
     Debit("", "100"),
     Row4(Str("01/04/2025"), Str("SWIGGY REFUND"), Str(""), Str("250"))}

RecurLedgers ==
    {[i \in 1..Len(rows) |-> Tx(rows[i], "a.csv", <<"a.csv">>)] :
        rows \in SeqsUpTo(RecurPool, MaxRecurRows)}

InitRecurring ==
    /\ arg \in RecurLedgers
    /\ res = <<>> /\ fpc = "start"
    /\ IdleMerchant /\ IdleParse /\ IdleDedup /\ IdleUi /\ IdleApp

Detect ==
    /\ fpc = "start"
    /\ res' = detectRecurring(arg)
    /\ fpc' = "done"
    /\ UNCHANGED <<arg, merchantVars, parseVars, dedupVars, uiVars, appVars>>

NextRecurring == Detect

SpecRecurring == InitRecurring /\ [][NextRecurring]_vars

(***************************************************************************)
(* Properties of the ledger (SpecDedup)                                    *)
(***************************************************************************)
\* the ledger was computed by deduplicateData (more than one file is loaded)
Deduplicated == dpc = "done" /\ Len(loadedFiles) > 1

\* the file's rows as they were parsed, without the reserved fields
ContentOf(file) == [i \in 1..Len(file.data) |-> file.data[i].cells]

SameContentTwice ==
    /\ Len(loadedFiles) = 2
    /\ loadedFiles[1].name # loadedFiles[2].name
    /\ ContentOf(loadedFiles[1]) = ContentOf(loadedFiles[2])

\* C1: when the same content is loaded under two file names, allData has as many
\* transactions as allData of that content loaded once as a single file, and every
\* entry's __srcs holds two names.
C1_SameContentTwice ==
    (dpc = "done" /\ SameContentTwice) =>
        /\ Len(ledger) = Len(allData(<<loadedFiles[1]>>))
        /\ \A k \in 1..Len(ledger) : Len(ledger[k].srcs) = 2

\* a record whose resolved date and resolved description are both empty
NoDateNoDesc(tx) ==
    /\ getTxDate(buildNorm(tx.cells)) = ""
    /\ ToText(getTxDesc(buildNorm(tx.cells))) = ""

\* C2: deduplicateData emits every input record that has neither a resolved date nor
\* a resolved description as its own entry, unchanged: the ledger's records of that
\* kind are the input's records of that kind, one for one.
C2_UnkeyedKeptApart ==
    Deduplicated =>
        SelectSeq(ledger, NoDateNoDesc) = SelectSeq(FlatMap(loadedFiles), NoDateNoDesc)

\* the amount of whichever of the debit and credit columns is populated, in hundredths
PopulatedAmt(norm) ==
    IF parseAmount(getDebitAmt(norm)) # Null THEN parseAmount(getDebitAmt(norm)).n
    ELSE IF parseAmount(getCreditAmt(norm)) # Null THEN parseAmount(getCreditAmt(norm)).n
    ELSE 0

SameDayAndMerchant(a, b) == DedupDate(a) = DedupDate(b) /\ DedupDesc(a) = DedupDesc(b)

InLedger(tx) == \E k \in 1..Len(ledger) : ledger[k].cells = tx.cells

DistinctAmountsKept(flat) ==
    \A i \in 1..Len(flat) : \A j \in (i + 1)..Len(flat) :
        (/\ PopulatedAmt(buildNorm(flat[i].cells)) # PopulatedAmt(buildNorm(flat[j].cells))
         /\ SameDayAndMerchant(flat[i], flat[j]))
        => (DedupKey(flat[i]) # DedupKey(flat[j]) /\ InLedger(flat[i]) /\ InLedger(flat[j]))

\* C3: two input records with the same canonical date and canonical merchant but
\* different populated amounts (debit, else credit) have different DedupKeys, and
\* both are entries of the deduplicated ledger.
C3_AmountFromPopulatedColumn == Deduplicated => DistinctAmountsKept(FlatMap(loadedFiles))

\* the key of each input row, "" for a row the code leaves unkeyed
KeysOf(flat) == [i \in 1..Len(flat) |-> IF Keyless(flat[i]) THEN "" ELSE DedupKey(flat[i])]

\* the positions of the rows that are unkeyed or the first with their key
FirstOccurrences(keys) ==
    SelectIdx({i \in 1..Len(keys) : keys[i] = "" \/ \A j \in 1..(i - 1) : keys[j] # keys[i]})

IsFirstOccurrenceSubsequence(out, flat, keys, idx) ==
    /\ Len(out) = Len(idx)
    /\ \A k \in 1..Len(idx) :
          out[k].cells = flat[idx[k]].cells /\ out[k].src = flat[idx[k]].src
    /\ \A k \in 1..Len(idx) : \A m \in (k + 1)..Len(idx) :
          keys[idx[k]] = "" \/ keys[idx[k]] # keys[idx[m]]
    /\ \A i \in 1..Len(keys) : \E k \in 1..Len(idx) : keys[idx[k]] = keys[i]

FirstOccurrenceOf(out, flat, keys) ==
    IsFirstOccurrenceSubsequence(out, flat, keys, FirstOccurrences(keys))

\* C4: the output of deduplicateData has exactly one entry for each distinct DedupKey
\* of the keyed input records, and its entries are the input's first occurrences, in
\* the input's order.
C4_FirstOccurrenceOrder ==
    Deduplicated => FirstOccurrenceOf(ledger, FlatMap(loadedFiles), KeysOf(FlatMap(loadedFiles)))

\* a repeat was dropped and what remains still has several distinct keys
C4_Witness ==
    /\ Deduplicated
    /\ Len(ledger) >= 2
    /\ Len(ledger) < Len(FlatMap(loadedFiles))
    /\ FlatMap(loadedFiles)[1].cells # FlatMap(loadedFiles)[2].cells

\* C6: cleanMerchantName and deduplicateData return for every description cell a
\* normalized record can hold, a number included: computing the ledger never raises.
C6_NeverThrows == dpc # "thrown"

(***************************************************************************)
(* Properties of cleanMerchantName (SpecMerchant)                          *)
(***************************************************************************)
\* C5: cleanMerchantName is idempotent: applied to its own result it returns that
\* result.
C5_Idempotent == mpc = "recleaned" => twice = once

(***************************************************************************)
(* Properties of the format parsers (SpecParse)                            *)
(***************************************************************************)
Returned == ppc \in {"csv", "xlsx"} /\ parsed.err = ""

\* out is rows up to, and without, the first row that isSummaryTx calls a summary
IsPrefixBeforeSummary(out, rows) ==
    /\ Len(out) <= Len(rows)
    /\ out = SubSeq(rows, 1, Len(out))
    /\ \A i \in 1..Len(out) : ~isSummaryTx(rows[i])
    /\ Len(out) < Len(rows) => isSummaryTx(rows[Len(out) + 1])

\* grid rows 2..N+1 are data rows and row N+2 starts with a footer keyword
DataThenFooter(g, N) ==
    /\ N + 2 <= Len(g)
    /\ \A i \in 2..(N + 1) : ~isSummaryTx(CsvRows(PapaParse(g))[i - 1])
    /\ StartsWithFooter(FirstNonEmpty(g[N + 2]))

\* C7: parseCSV returns exactly the rows before the first summary row; N data rows
\* followed by a row whose first non-empty cell starts with a footer keyword give N
\* records, and nothing after that row is returned.
C7_CsvStopsAtFooter ==
    ppc = "csv" =>
        /\ IsPrefixBeforeSummary(parsed.rows, CsvRows(PapaParse(grid)))
        /\ \A N \in 0..Len(grid) : DataThenFooter(grid, N) => Len(parsed.rows) = N

\* C8: no record a parser returns is a summary row: neither its resolved description
\* nor its first non-empty cell starts with a footer keyword.
C8_NoSummaryRecord ==
    Returned => \A k \in 1..Len(parsed.rows) : ~isSummaryTx(parsed.rows[k])

\* a row under the header h that is not a footer row and has a date and a description
IsDataRow(h, row) == ~isSummaryRow(row) /\ HasDateAndDesc(SheetObject(HeaderNames(h), row))

\* k rows that do not qualify, a header, n data rows, a footer row, any further rows
SheetShape(g, k, n) ==
    /\ k + n + 2 <= Len(g)
    /\ \A i \in 1..k : ~QualifiesAsHeader(g[i])
    /\ QualifiesAsHeader(g[k + 1])
    /\ \A i \in (k + 2)..(k + 1 + n) : IsDataRow(g[k + 1], g[i])
    /\ isSummaryRow(g[k + n + 2])

\* C9: the spreadsheet parser fails with the header-not-found error exactly when no
\* row qualifies as a header; it takes the lowest qualifying row as the header, so a
\* grid of k non-qualifying rows, a header, n rows with date and description, a
\* footer row and m further rows yields exactly n records.
C9_HeaderDiscovery ==
    ppc = "xlsx" =>
        /\ parsed.err # "" <=> \A i \in 1..Len(grid) : ~QualifiesAsHeader(grid[i])
        /\ parsed.err \in {"", "Could not find header row in Excel file."}
        /\ \A k \in 0..Len(grid) : \A n \in 0..Len(grid) :
              SheetShape(grid, k, n) => (parsed.err = "" /\ Len(parsed.rows) = n)

\* rows before the header, data rows, a footer row, and rows after it
C9_Witness ==
    /\ ppc = "xlsx"
    /\ \E k \in 1..Len(grid) : \E n \in 1..Len(grid) :
          SheetShape(grid, k, n) /\ Len(grid) > k + n + 2 /\ Len(parsed.rows) = n

\* C10: every record a parser returns has a non-empty resolved date and a non-empty
\* resolved description, from the CSV parser as from the spreadsheet parser.
C10_DateAndDescription ==
    Returned => \A k \in 1..Len(parsed.rows) : NormHasDateAndDesc(parsed.rows[k])

(***************************************************************************)
(* Properties of the upload handler (Spec)                                 *)
(***************************************************************************)
\* every handleFiles invocation has returned
AllReturned == \A c \in 1..Len(calls) : calls[c].at > Len(calls[c].files)

\* invocation c went as far as calling parseFileData on its file i
Attempted(c, i) ==
    /\ ~FreePlanFull(isPro, calls[c].closure)
    /\ ~AlreadyLoaded(calls[c].closure, calls[c].files[i].name)

AttemptsOf(file) ==
    {ci \in (1..Len(calls)) \X (1..MaxPicked) :
        /\ ci[2] <= Len(calls[ci[1]].files)
        /\ calls[ci[1]].files[ci[2]] = file
        /\ Attempted(ci[1], ci[2])}

ParsesOk(file) == parseFileData(file).err = ""

\* the entries of loadedFiles of that name that hold exactly these rows
EntriesHolding(name, rows) ==
    {k \in 1..Len(loadedFiles) :
        /\ loadedFiles[k].name = name
        /\ loadedFiles[k].data = StoredFile(name, 0, rows).data}

WholeEntriesOf(file) == EntriesHolding(file.name, parseFileData(file).rows)

EntriesNamed(name) == {k \in 1..Len(loadedFiles) : loadedFiles[k].name = name}

RowsFrom(name) ==
    {k \in 1..Len(FlatMap(loadedFiles)) : FlatMap(loadedFiles)[k].src = name}

\* out is what parseFileData gives for the file
WholeOrAbsent(file, out) ==
    IF out.err = ""
    THEN /\ EntriesNamed(file.name) = EntriesHolding(file.name, out.rows)
         /\ AllReturned =>
                Cardinality(EntriesNamed(file.name)) = Cardinality(AttemptsOf(file))
    ELSE EntriesNamed(file.name) = {} /\ RowsFrom(file.name) = {}

\* C11: within a batch every file that parses is added to loadedFiles exactly once
\* with all of its rows, and a file whose validation or parse fails contributes no
\* rows, wherever the failing files stand in the batch and however many they are.
C11_BatchFilesWholeOrAbsent ==
    \A file \in {Picked[k] : k \in 1..Len(Picked)} :
        WholeOrAbsent(file, parseFileData(file))

\* a batch of three has returned: its first file failed to parse after its read,
\* its second was rejected before any read, its third was added
C11_Witness ==
    /\ AllReturned
    /\ \E c \in 1..Len(calls) :
        /\ Len(calls[c].files) = 3
        /\ Validation(calls[c].files[1]) = "" /\ ~ParsesOk(calls[c].files[1])
        /\ Validation(calls[c].files[2]) # ""
        /\ ParsesOk(calls[c].files[3])
        /\ WholeEntriesOf(calls[c].files[3]) # {}

\* file i of invocation c went to parseFileData, which threw
FailedAt(c, i) == Attempted(c, i) /\ ~ParsesOk(calls[c].files[i])

\* the message handleFiles builds for that failure
FailureMessage(file) == ParseErrorMessage(file.name, parseFileData(file).err)

\* the component holds the message: error is the only place it keeps one
MessageHeld(message) == error = message

\* C12: after a batch in which k files fail validation or parsing, the component
\* holds one error message for each of the k failing files.
C12_OneMessagePerFailure ==
    (Len(calls) = 1 /\ AllReturned) =>
        \A i \in 1..Len(calls[1].files) :
            FailedAt(1, i) => MessageHeld(FailureMessage(calls[1].files[i]))

NamesOf(files) == [k \in 1..Len(files) |-> files[k].name]

\* a is b with some of its elements left out
RECURSIVE IsSubsequence(_, _)
IsSubsequence(a, b) ==
    IF a = <<>> THEN TRUE
    ELSE IF b = <<>> THEN FALSE
    ELSE IF a[1] = b[1] THEN IsSubsequence(Tail(a), Tail(b))
    ELSE IsSubsequence(a, Tail(b))

\* the rows of the loaded files, each file's rows in the order its parser gave
RowsInFileOrder ==
    \A k \in 1..Len(loadedFiles) :
        \E file \in {Picked[j] : j \in 1..Len(Picked)} :
            /\ file.name = loadedFiles[k].name
            /\ loadedFiles[k].data = StoredFile(file.name, 0, parseFileData(file).rows).data

\* C13: after any sequence of upload batches, overlapping reads included, the
\* loaded files stand in the order the user handed them over (so that loadedFiles
\* flattened is their rows in that order), each file's rows in row order.
C13_UserOrder ==
    AllReturned =>
        /\ IsSubsequence(NamesOf(loadedFiles), NamesOf(Picked))
        /\ RowsInFileOrder

(***************************************************************************)
(* Properties of the ledger over additions and removals (SpecLedger)       *)
(***************************************************************************)
\* the file added last has been removed again and the render has run
AddedThenRemoved == prior # <<>> /\ prior.removed /\ dpc = "done"

\* C14: after a file B is added to a loaded set S and then removed, the ledger
\* (records, order, every entry's __srcs) is the ledger S had before B was added,
\* and the records loadedFiles holds are those it held: deduplication has not
\* changed them.
C14_LedgerOfFileSet ==
    AddedThenRemoved => ledger = prior.ledger /\ loadedFiles = prior.files

\* B was added to a set whose ledger it shares a row with, and removed again
C14_Witness ==
    /\ AddedThenRemoved
    /\ Len(loadedFiles) = 2
    /\ \E k \in 1..Len(ledger) : Len(ledger[k].srcs) = 2

\* a file name's extension: what follows its last dot, none ("") without a dot
Extension(name) ==
    IF DotsOf(name) = {} THEN ""
    ELSE ToLower(SubSeq(name, Max(DotsOf(name)) + 1, Len(name)))

Oversized(file) == file.size > 20 * 1024 * 1024

WrongType(file) ==
    \/ Extension(file.name) \notin {"csv", "xlsx", "xls"}
    \/ (file.type # "" /\ file.type \notin allowedMime)

\* parseFileData throws the message for the file, handleFiles never awaits a read
\* of it, and loadedFiles holds nothing of it
RejectedUnread(c, i, message) ==
    /\ parseFileData(calls[c].files[i]).err = message
    /\ calls[c].at # i
    /\ EntriesNamed(calls[c].files[i].name) = {}

\* C15: parseFileData rejects a file over 20 MB with the file-too-large error before
\* the type check and before any read, and a file whose extension is not csv, xlsx
\* or xls, or whose media type is present and not allowed, with the invalid-file-type
\* error; loadedFiles is left unchanged in both cases.
C15_RejectedBeforeRead ==
    \A c \in 1..Len(calls) : \A i \in 1..Len(calls[c].files) :
        Attempted(c, i) =>
            /\ Oversized(calls[c].files[i]) => RejectedUnread(c, i, TooLargeMessage)
            /\ (~Oversized(calls[c].files[i]) /\ WrongType(calls[c].files[i]))
                    => RejectedUnread(c, i, InvalidTypeMessage)

(***************************************************************************)
(* Properties of the date functions (SpecDate)                             *)
(***************************************************************************)
\* /^\d{2}\/\d{2}\/\d{4}$/
DdMmYyyyRe ==
    Rx(Cat(<<Bos, Cls(Digits, 2, 2), Lit("/"), Cls(Digits, 2, 2), Lit("/"),
             Cls(Digits, 4, 4), Eos>>), FALSE)

\* C16: getTxDate returns either the empty string or a date in DD/MM/YYYY, whatever
\* the date cell holds (a serial number, a date, free text such as an ISO or a
\* DD-MM-YYYY spelling).
C16_DateIsDdMmYyyy ==
    fpc # "start" => res.date = "" \/ Test(DdMmYyyyRe, res.date)

\* DD/MM/YYYY of a day
CanonicalDay(day) ==
    PadStart2(NatToStr(day[1])) \o "/" \o PadStart2(NatToStr(day[2])) \o "/" \o Year4(day[3])

\* C17: canonicalDate maps every accepted spelling of a day of the 2000s to the same
\* DD/MM/YYYY string, and returns its own output unchanged.
C17_OneSpellingPerDay ==
    /\ (fpc \in {"canon", "again"} /\ arg.day # <<>>) => res.canon = CanonicalDay(arg.day)
    /\ fpc = "again" => res.again = res.canon

\* a two-digit-year spelling with unpadded day and month has been canonicalized twice
C17_Witness ==
    /\ fpc = "again"
    /\ arg.cell = Str("1.4.25")
    /\ res.canon = "01/04/2025"

(***************************************************************************)
(* Properties of direction and totals (SpecStats)                          *)
(***************************************************************************)
\* the cells of a row under the columns whose name is one of the names
CellsNamed(cells, names) ==
    {cells[i].v : i \in {j \in 1..Len(cells) : normalizeKey(cells[j].k) \in names}}

DirectionNames == {DrCrKeys[i] : i \in 1..Len(DrCrKeys)}

\* what the row's direction column says, in capitals
DirectionsOf(cells) == {ToUpper(Trim(v.s)) : v \in CellsNamed(cells, DirectionNames)}

\* a column of the side (its name starts with one of the words) holds a positive
\* amount
SidePositive(cells, words) ==
    \E i \in 1..Len(cells) :
        /\ \E w \in words : StartsWith(normalizeKey(cells[i].k), w)
        /\ Positive(parseAmount(cleanString(cells[i].v)))

DebitWords == {"withdrawal", "debit", "dr"}

CreditWords == {"deposit", "credit", "cr"}

\* the flags follow the direction column when the row has one that is not empty,
\* and the filled amount column when the row has no direction column
FlagsFollowPolicy(cells, flags) ==
    /\ (DirectionsOf(cells) # {} /\ "" \notin DirectionsOf(cells)) =>
          /\ flags.debit <=> DirectionsOf(cells) \cap {"DR", "DEBIT"} # {}
          /\ flags.credit <=> DirectionsOf(cells) \cap {"CR", "CREDIT"} # {}
    /\ DirectionsOf(cells) = {} =>
          /\ flags.debit <=> SidePositive(cells, DebitWords)
          /\ flags.credit <=> SidePositive(cells, CreditWords)

AmountWords == DebitWords \cup CreditWords \cup {"amount", "amt"}

\* the positive amount the row carries in a column of the side, in hundredths
CarriedIn(cells, words) ==
    parseAmount(cleanString(cells[CHOOSE i \in 1..Len(cells) :
        /\ \E w \in words : StartsWith(normalizeKey(cells[i].k), w)
        /\ Positive(parseAmount(cleanString(cells[i].v)))].v)).n

\* what a credit row is worth: its credit column, else the amount column it has
CreditWorth(cells) ==
    IF SidePositive(cells, CreditWords) THEN CarriedIn(cells, CreditWords)
    ELSE CarriedIn(cells, AmountWords)

\* the rows whose direction resolved to credit and that carry a positive amount
CreditRows == {i \in 1..Len(arg) : res.flags[i].credit /\ SidePositive(arg[i].cells, AmountWords)}

RECURSIVE CreditWorthOf(_)
CreditWorthOf(rows) ==
    IF rows = {} THEN 0
    ELSE CreditWorth(arg[Min(rows)].cells) + CreditWorthOf(rows \ {Min(rows)})

\* C19: every record whose direction resolves to credit and that carries a positive
\* amount in a recognised amount column (a shared Amount column beside a DR/CR
\* indicator included) adds that amount to the total credited and 1 to the credit
\* count of getUserStats.
C19_CreditsCounted ==
    fpc = "totalled" =>
        /\ res.stats.creditCount = Cardinality(CreditRows)
        /\ res.stats.totalReceived = CreditWorthOf(CreditRows)

(***************************************************************************)
(* Properties of detectRecurring (SpecRecurring)                           *)
(***************************************************************************)
NormOf(i) == buildNorm(arg[i].cells)

\* the transactions with a description and a positive resolved amount
Qualifying == {i \in 1..Len(arg) : Recurs(NormOf(i))}

\* the canonical merchant name of a transaction's description
NameOf(i) == cleanMerchantName(getTxDesc(NormOf(i))).s

MembersOf(name) == {i \in Qualifying : NameOf(i) = name}

GroupsNamed(name) == {g \in 1..Len(res.groups) : res.groups[g].description = name}

\* the group emitted for the name is the one the members call for
GroupMatches(group, name, members) ==
    /\ group.count = Cardinality(members)
    /\ group.isSubscription <=>
          \/ isLikelySubscription(name)
          \/ \E i \in members : isLikelySubscription(getTxDesc(NormOf(i)).s)

\* a name with two members or more has exactly one group, a name with fewer none
NameGrouped(name, members, groups) ==
    IF Cardinality(members) >= 2
    THEN Cardinality(groups) = 1 /\ \A g \in groups : GroupMatches(res.groups[g], name, members)
    ELSE groups = {}

\* C20: detectRecurring groups the qualifying transactions by canonical merchant
\* name: the transactions of one name form one group whose count is their number, a
\* group is emitted exactly when it has at least 2 members, and it is flagged
\* isSubscription when its name or a member's raw description matches a
\* subscription pattern.
C20_GroupedByCanonicalName ==
    fpc = "done" =>
        /\ ~res.thrown
        /\ \A i \in Qualifying : NameGrouped(NameOf(i), MembersOf(NameOf(i)), GroupsNamed(NameOf(i)))
        /\ \A g \in 1..Len(res.groups) : MembersOf(res.groups[g].description) # {}

\* the three spellings of Netflix came out as one group of three, a subscription
C20_Witness ==
    /\ fpc = "done"
    /\ {getTxDesc(NormOf(i)).s : i \in 1..Len(arg)} =
           {"NETFLIX.COM", "POS NETFLIX COM 998877", "UPI-NETFLIX@OKSBI"}
    /\ Len(res.groups) = 1
    /\ res.groups[1].description = "Netflix"
    /\ res.groups[1].count = 3
    /\ res.groups[1].isSubscription
    /\ res.groups[1].total = 104700

\* the transactions with a description and a positive amount in a debit-side or in
\* a credit-side column
Considered ==
    {i \in 1..Len(arg) :
        /\ ~Falsy(getTxDesc(NormOf(i)))
        /\ \/ Positive(parseAmount(getDebitAmt(NormOf(i))))
           \/ Positive(parseAmount(getCreditAmt(NormOf(i))))}

ConsideredAs(name) == {i \in Considered : NameOf(i) = name}

\* C21: detectRecurring considers every transaction with a non-empty description
\* and a positive amount, in the debit or in the credit column: two such
\* transactions of one canonical merchant (two credits whose debit column is
\* present but empty included) form an emitted group.
C21_EitherColumnConsidered ==
    fpc = "done" =>
        \A i \in Considered :
            Cardinality(ConsideredAs(NameOf(i))) >= 2 => GroupsNamed(NameOf(i)) # {}

(***************************************************************************)
(* Spending categories                                                     *)
(***************************************************************************)
\* CATEGORY_MAP: [pattern, label] in the order of the source (the emoji and the
\* colour of an entry are not modelled)
CATEGORY_MAP ==
    << \* /netflix/i
       <<Lit("netflix"),
         "Streaming">>,
       \* /spotify/i
       <<Lit("spotify"),
         "Streaming">>,
       \* /hotstar|disney/i
       <<Words(<<"hotstar", "disney">>),
         "Streaming">>,
       \* /zee5/i
       <<Lit("zee5"),
         "Streaming">>,
       \* /sonyliv/i
       <<Lit("sonyliv"),
         "Streaming">>,
       \* /amazon\s*prime|primevideo/i
       <<Alt(<<Cat(<<Lit("amazon"), WS, Lit("prime")>>), Lit("primevideo")>>),
         "Streaming">>,
       \* /youtube\s*premium/i
       <<Cat(<<Lit("youtube"), WS, Lit("premium")>>),
         "Streaming">>,
       \* /jio\s*cinema|jiocinema/i
       <<Alt(<<Cat(<<Lit("jio"), WS, Lit("cinema")>>), Lit("jiocinema")>>),
         "Streaming">>,
       \* /mxplayer|mx\s*player/i
       <<Alt(<<Lit("mxplayer"), Cat(<<Lit("mx"), WS, Lit("player")>>)>>),
         "Streaming">>,
       \* /apple\s*tv|appletv/i
       <<Alt(<<Cat(<<Lit("apple"), WS, Lit("tv")>>), Lit("appletv")>>),
         "Streaming">>,
       \* /swiggy/i
       <<Lit("swiggy"),
         "Food & Dining">>,
       \* /zomato/i
       <<Lit("zomato"),
         "Food & Dining">>,
       \* /dominos?\b/i
       <<Cat(<<Lit("domino"), Cls({"s"}, 0, 1), WordB>>),
         "Food & Dining">>,
       \* /pizza\s*hut/i
       <<Cat(<<Lit("pizza"), WS, Lit("hut")>>),
         "Food & Dining">>,
       \* /mcdonalds?|\bmcd\b/i
       <<Alt(<<Cat(<<Lit("mcdonald"), Cls({"s"}, 0, 1)>>), Cat(<<WordB, Lit("mcd"), WordB>>)>>),
         "Food & Dining">>,
       \* /\bkfc\b/i
       <<Cat(<<WordB, Lit("kfc"), WordB>>),
         "Food & Dining">>,
       \* /\bsubway\b/i
       <<Cat(<<WordB, Lit("subway"), WordB>>),
         "Food & Dining">>,
       \* /burger\s*king/i
       <<Cat(<<Lit("burger"), WS, Lit("king")>>),
         "Food & Dining">>,
       \* /starbucks|ccd\b|barista|cafe|coffee/i
       <<Alt(<<Lit("starbucks"), Cat(<<Lit("ccd"), WordB>>), Lit("barista"), Lit("cafe"), Lit("coffee")>>),
         "Food & Dining">>,
       \* /restaurant|dining|canteen|eatery|food\s*court/i
       <<Alt(<<Lit("restaurant"), Lit("dining"), Lit("canteen"), Lit("eatery"), Cat(<<Lit("food"), WS, Lit("court")>>)>>),
         "Food & Dining">>,
       \* /bigbasket|bb\s*now/i
       <<Alt(<<Lit("bigbasket"), Cat(<<Lit("bb"), WS, Lit("now")>>)>>),
         "Groceries">>,
       \* /blinkit|grofers/i
       <<Words(<<"blinkit", "grofers">>),
         "Groceries">>,
       \* /zepto/i
       <<Lit("zepto"),
         "Groceries">>,
       \* /\bdmart\b|d-mart/i
       <<Alt(<<Cat(<<WordB, Lit("dmart"), WordB>>), Lit("d-mart")>>),
         "Groceries">>,
       \* /reliance\s*(fresh|smart)/i
       <<Cat(<<Lit("reliance"), WS, Words(<<"fresh", "smart">>)>>),
         "Groceries">>,
       \* /jiomart/i
       <<Lit("jiomart"),
         "Groceries">>,
       \* /more\s*(supermarket|retail)/i
       <<Cat(<<Lit("more"), WS, Words(<<"supermarket", "retail">>)>>),
         "Groceries">>,
       \* /nature\s*basket|godrej\s*nature/i
       <<Alt(<<Cat(<<Lit("nature"), WS, Lit("basket")>>), Cat(<<Lit("godrej"), WS, Lit("nature")>>)>>),
         "Groceries">>,
       \* /grocery|supermarket|hypermarket/i
       <<Words(<<"grocery", "supermarket", "hypermarket">>),
         "Groceries">>,
       \* /amazon(?!\s*prime)/i
       <<Cat(<<Lit("amazon"), NotAhead(Cat(<<WS, Lit("prime")>>))>>),
         "Shopping">>,
       \* /flipkart/i
       <<Lit("flipkart"),
         "Shopping">>,
       \* /myntra/i
       <<Lit("myntra"),
         "Shopping">>,
       \* /nykaa/i
       <<Lit("nykaa"),
         "Shopping">>,
       \* /\bajio\b/i
       <<Cat(<<WordB, Lit("ajio"), WordB>>),
         "Shopping">>,
       \* /meesho/i
       <<Lit("meesho"),
         "Shopping">>,
       \* /tata\s*cliq/i
       <<Cat(<<Lit("tata"), WS, Lit("cliq")>>),
         "Shopping">>,
       \* /snapdeal/i
       <<Lit("snapdeal"),
         "Shopping">>,
       \* /lenskart/i
       <<Lit("lenskart"),
         "Shopping">>,
       \* /firstcry/i
       <<Lit("firstcry"),
         "Shopping">>,
       \* /\buber\b/i
       <<Cat(<<WordB, Lit("uber"), WordB>>),
         "Travel">>,
       \* /\bola\b/i
       <<Cat(<<WordB, Lit("ola"), WordB>>),
         "Travel">>,
       \* /rapido/i
       <<Lit("rapido"),
         "Travel">>,
       \* /redbus/i
       <<Lit("redbus"),
         "Travel">>,
       \* /makemytrip|\bmmt\b/i
       <<Alt(<<Lit("makemytrip"), Cat(<<WordB, Lit("mmt"), WordB>>)>>),
         "Travel">>,
       \* /goibibo/i
       <<Lit("goibibo"),
         "Travel">>,
       \* /yatra\.com|yatra\b/i
       <<Alt(<<Lit("yatra.com"), Cat(<<Lit("yatra"), WordB>>)>>),
         "Travel">>,
       \* /irctc/i
       <<Lit("irctc"),
         "Travel">>,
       \* /indigo|spicejet|air\s*india|vistara|go\s*first|akasa/i
       <<Alt(<<Lit("indigo"), Lit("spicejet"), Cat(<<Lit("air"), WS, Lit("india")>>), Lit("vistara"), Cat(<<Lit("go"), WS, Lit("first")>>), Lit("akasa")>>),
         "Travel">>,
       \* /\boyo\b/i
       <<Cat(<<WordB, Lit("oyo"), WordB>>),
         "Travel">>,
       \* /airbnb/i
       <<Lit("airbnb"),
         "Travel">>,
       \* /hotel|resort|lodge/i
       <<Words(<<"hotel", "resort", "lodge">>),
         "Travel">>,
       \* /\bcab\b|taxi/i
       <<Alt(<<Cat(<<WordB, Lit("cab"), WordB>>), Lit("taxi")>>),
         "Travel">>,
       \* /petrol|diesel|\bfuel\b/i
       <<Alt(<<Lit("petrol"), Lit("diesel"), Cat(<<WordB, Lit("fuel"), WordB>>)>>),
         "Fuel">>,
       \* /bpcl|bharat\s*petro/i
       <<Alt(<<Lit("bpcl"), Cat(<<Lit("bharat"), WS, Lit("petro")>>)>>),
         "Fuel">>,
       \* /hpcl|hindustan\s*petro/i
       <<Alt(<<Lit("hpcl"), Cat(<<Lit("hindustan"), WS, Lit("petro")>>)>>),
         "Fuel">>,
       \* /iocl|indian\s*oil/i
       <<Alt(<<Lit("iocl"), Cat(<<Lit("indian"), WS, Lit("oil")>>)>>),
         "Fuel">>,
       \* /\bshell\b/i
       <<Cat(<<WordB, Lit("shell"), WordB>>),
         "Fuel">>,
       \* /nayara/i
       <<Lit("nayara"),
         "Fuel">>,
       \* /medplus/i
       <<Lit("medplus"),
         "Health">>,
       \* /netmeds/i
       <<Lit("netmeds"),
         "Health">>,
       \* /1mg|tata\s*1mg/i
       <<Alt(<<Lit("1mg"), Cat(<<Lit("tata"), WS, Lit("1mg")>>)>>),
         "Health">>,
       \* /practo/i
       <<Lit("practo"),
         "Health">>,
       \* /apollo\s*(pharm|hosp)/i
       <<Cat(<<Lit("apollo"), WS, Words(<<"pharm", "hosp">>)>>),
         "Health">>,
       \* /fortis|max\s*hosp|manipal\s*hosp/i
       <<Alt(<<Lit("fortis"), Cat(<<Lit("max"), WS, Lit("hosp")>>), Cat(<<Lit("manipal"), WS, Lit("hosp")>>)>>),
         "Health">>,
       \* /pharmacy|chemist|medical\s*store|med\s*shop/i
       <<Alt(<<Lit("pharmacy"), Lit("chemist"), Cat(<<Lit("medical"), WS, Lit("store")>>), Cat(<<Lit("med"), WS, Lit("shop")>>)>>),
         "Health">>,
       \* /hospital|clinic|diagnostic|lab\s*test|pathology/i
       <<Alt(<<Lit("hospital"), Lit("clinic"), Lit("diagnostic"), Cat(<<Lit("lab"), WS, Lit("test")>>), Lit("pathology")>>),
         "Health">>,
       \* /udemy/i
       <<Lit("udemy"),
         "Education">>,
       \* /coursera/i
       <<Lit("coursera"),
         "Education">>,
       \* /byju/i
       <<Lit("byju"),
         "Education">>,
       \* /unacademy/i
       <<Lit("unacademy"),
         "Education">>,
       \* /upgrad/i
       <<Lit("upgrad"),
         "Education">>,
       \* /skillshare/i
       <<Lit("skillshare"),
         "Education">>,
       \* /school\s*fee|college\s*fee|tuition|exam\s*fee/i
       <<Alt(<<Cat(<<Lit("school"), WS, Lit("fee")>>), Cat(<<Lit("college"), WS, Lit("fee")>>), Lit("tuition"), Cat(<<Lit("exam"), WS, Lit("fee")>>)>>),
         "Education">>,
       \* /electricity|bescom|tneb|msedcl|\bcesc\b|adani\s*elec|tata\s*power/i
       <<Alt(<<Lit("electricity"), Lit("bescom"), Lit("tneb"), Lit("msedcl"), Cat(<<WordB, Lit("cesc"), WordB>>), Cat(<<Lit("adani"), WS, Lit("elec")>>), Cat(<<Lit("tata"), WS, Lit("power")>>)>>),
         "Utilities">>,
       \* /water\s*bill|bwssb/i
       <<Alt(<<Cat(<<Lit("water"), WS, Lit("bill")>>), Lit("bwssb")>>),
         "Utilities">>,
       \* /piped\s*gas|\bmgl\b|\bigl\b|mahanagar\s*gas/i
       <<Alt(<<Cat(<<Lit("piped"), WS, Lit("gas")>>), Cat(<<WordB, Lit("mgl"), WordB>>), Cat(<<WordB, Lit("igl"), WordB>>), Cat(<<Lit("mahanagar"), WS, Lit("gas")>>)>>),
         "Utilities">>,
       \* /indane|bharat\s*gas|hp\s*gas|\blpg\b/i
       <<Alt(<<Lit("indane"), Cat(<<Lit("bharat"), WS, Lit("gas")>>), Cat(<<Lit("hp"), WS, Lit("gas")>>), Cat(<<WordB, Lit("lpg"), WordB>>)>>),
         "Utilities">>,
       \* /broadband|internet\s*bill|wi.?fi/i
       <<Alt(<<Lit("broadband"), Cat(<<Lit("internet"), WS, Lit("bill")>>), Cat(<<Lit("wi"), NotCls({"\n"}, 0, 1), Lit("fi")>>)>>),
         "Utilities">>,
       \* /bill\s*pay|utility\s*pay/i
       <<Alt(<<Cat(<<Lit("bill"), WS, Lit("pay")>>), Cat(<<Lit("utility"), WS, Lit("pay")>>)>>),
         "Utilities">>,
       \* /jio(?!mart|cinema)/i
       <<Cat(<<Lit("jio"), NotAhead(Words(<<"mart", "cinema">>))>>),
         "Telecom">>,
       \* /airtel/i
       <<Lit("airtel"),
         "Telecom">>,
       \* /vodafone|\bvi\b/i
       <<Alt(<<Lit("vodafone"), Cat(<<WordB, Lit("vi"), WordB>>)>>),
         "Telecom">>,
       \* /\bbsnl\b/i
       <<Cat(<<WordB, Lit("bsnl"), WordB>>),
         "Telecom">>,
       \* /mobile\s*bill|postpaid|prepaid\s*recharge|recharge/i
       <<Alt(<<Cat(<<Lit("mobile"), WS, Lit("bill")>>), Lit("postpaid"), Cat(<<Lit("prepaid"), WS, Lit("recharge")>>), Lit("recharge")>>),
         "Telecom">>,
       \* /\blic\b|life\s*insur/i
       <<Alt(<<Cat(<<WordB, Lit("lic"), WordB>>), Cat(<<Lit("life"), WS, Lit("insur")>>)>>),
         "Insurance">>,
       \* /hdfc\s*(ergo|life|insur)/i
       <<Cat(<<Lit("hdfc"), WS, Words(<<"ergo", "life", "insur">>)>>),
         "Insurance">>,
       \* /icici\s*(lombard|pru)/i
       <<Cat(<<Lit("icici"), WS, Words(<<"lombard", "pru">>)>>),
         "Insurance">>,
       \* /star\s*health|care\s*health|niva\s*bupa/i
       <<Alt(<<Cat(<<Lit("star"), WS, Lit("health")>>), Cat(<<Lit("care"), WS, Lit("health")>>), Cat(<<Lit("niva"), WS, Lit("bupa")>>)>>),
         "Insurance">>,
       \* /bajaj\s*allianz/i
       <<Cat(<<Lit("bajaj"), WS, Lit("allianz")>>),
         "Insurance">>,
       \* /insurance\s*prem|policy\s*prem/i
       <<Alt(<<Cat(<<Lit("insurance"), WS, Lit("prem")>>), Cat(<<Lit("policy"), WS, Lit("prem")>>)>>),
         "Insurance">>,
       \* /groww/i
       <<Lit("groww"),
         "Investments">>,
       \* /zerodha|\bkite\b/i
       <<Alt(<<Lit("zerodha"), Cat(<<WordB, Lit("kite"), WordB>>)>>),
         "Investments">>,
       \* /upstox/i
       <<Lit("upstox"),
         "Investments">>,
       \* /kuvera/i
       <<Lit("kuvera"),
         "Investments">>,
       \* /smallcase/i
       <<Lit("smallcase"),
         "Investments">>,
       \* /mutual\s*fund|\bmf\b.*sip|\bsip\b|\bnps\b|\bppf\b|\belss\b/i
       <<Alt(<<Cat(<<Lit("mutual"), WS, Lit("fund")>>), Cat(<<WordB, Lit("mf"), WordB, NotCls({"\n"}, 0, Many), Lit("sip")>>), Cat(<<WordB, Lit("sip"), WordB>>), Cat(<<WordB, Lit("nps"), WordB>>), Cat(<<WordB, Lit("ppf"), WordB>>), Cat(<<WordB, Lit("elss"), WordB>>)>>),
         "Investments">>,
       \* /demat|brokerage|equity|\bnse\b|\bbse\b/i
       <<Alt(<<Lit("demat"), Lit("brokerage"), Lit("equity"), Cat(<<WordB, Lit("nse"), WordB>>), Cat(<<WordB, Lit("bse"), WordB>>)>>),
         "Investments">>,
       \* /\bemi\b/i
       <<Cat(<<WordB, Lit("emi"), WordB>>),
         "EMI & Loans">>,
       \* /loan\s*(emi|inst|repay)/i
       <<Cat(<<Lit("loan"), WS, Words(<<"emi", "inst", "repay">>)>>),
         "EMI & Loans">>,
       \* /bajaj\s*finance/i
       <<Cat(<<Lit("bajaj"), WS, Lit("finance")>>),
         "EMI & Loans">>,
       \* /home\s*loan|car\s*loan|personal\s*loan|education\s*loan/i
       <<Alt(<<Cat(<<Lit("home"), WS, Lit("loan")>>), Cat(<<Lit("car"), WS, Lit("loan")>>), Cat(<<Lit("personal"), WS, Lit("loan")>>), Cat(<<Lit("education"), WS, Lit("loan")>>)>>),
         "EMI & Loans">>,
       \* /atm\s*(wd|wdl|cash|with)|cash\s*with|\bnwd\b|\biwd\b|\beaw\b|\batw\b/i
       <<Alt(<<Cat(<<Lit("atm"), WS, Words(<<"wd", "wdl", "cash", "with">>)>>), Cat(<<Lit("cash"), WS, Lit("with")>>), Cat(<<WordB, Lit("nwd"), WordB>>), Cat(<<WordB, Lit("iwd"), WordB>>), Cat(<<WordB, Lit("eaw"), WordB>>), Cat(<<WordB, Lit("atw"), WordB>>)>>),
         "ATM & Cash">>,
       \* /paytm/i
       <<Lit("paytm"),
         "Wallet & UPI">>,
       \* /mobikwik/i
       <<Lit("mobikwik"),
         "Wallet & UPI">>,
       \* /freecharge/i
       <<Lit("freecharge"),
         "Wallet & UPI">>,
       \* /\bbhim\b/i
       <<Cat(<<WordB, Lit("bhim"), WordB>>),
         "Wallet & UPI">>,
       \* /credit\s*card\s*(pay|bill|due)|\bcc\s*(pay|bill|due|emi)\b/i
       <<Alt(<<Cat(<<Lit("credit"), WS, Lit("card"), WS, Words(<<"pay", "bill", "due">>)>>), Cat(<<WordB, Lit("cc"), WS, Words(<<"pay", "bill", "due", "emi">>), WordB>>)>>),
         "Credit Card">>,
       \* /(hdfc|icici|sbi|axis|kotak|amex|citi)\s*(cc|credit\s*card|visa|master|rupay)/i
       <<Cat(<<Words(<<"hdfc", "icici", "sbi", "axis", "kotak", "amex", "citi">>), WS, Alt(<<Lit("cc"), Cat(<<Lit("credit"), WS, Lit("card")>>), Lit("visa"), Lit("master"), Lit("rupay")>>)>>),
         "Credit Card">>,
       \* /\bnach\b|\becs\b|\bmandatepay|\bautopay\b|\bauto\s*debit\b/i
       <<Alt(<<Cat(<<WordB, Lit("nach"), WordB>>), Cat(<<WordB, Lit("ecs"), WordB>>), Cat(<<WordB, Lit("mandatepay")>>), Cat(<<WordB, Lit("autopay"), WordB>>), Cat(<<WordB, Lit("auto"), WS, Lit("debit"), WordB>>)>>),
         "Auto Debit">>,
       \* /\bself\b|\bown\s*a\/c\b|chq\s*paid|cheque\s*paid|\bcheque\b.*issued/i
       <<Alt(<<Cat(<<WordB, Lit("self"), WordB>>), Cat(<<WordB, Lit("own"), WS, Lit("a/c"), WordB>>), Cat(<<Lit("chq"), WS, Lit("paid")>>), Cat(<<Lit("cheque"), WS, Lit("paid")>>), Cat(<<WordB, Lit("cheque"), WordB, NotCls({"\n"}, 0, Many), Lit("issued")>>)>>),
         "Transfers">>,
       \* /\bimps\b/i
       <<Cat(<<WordB, Lit("imps"), WordB>>),
         "Transfers">>,
       \* /bajaj.*fin|bajajfinotp|\bbfl\d/i
       <<Alt(<<Cat(<<Lit("bajaj"), NotCls({"\n"}, 0, Many), Lit("fin")>>), Lit("bajajfinotp"), Cat(<<WordB, Lit("bfl"), Cls(Digits, 1, 1)>>)>>),
         "EMI & Loans">>,
       \* /\bnach.*emi\b|\bemi.*nach\b/i
       <<Alt(<<Cat(<<WordB, Lit("nach"), NotCls({"\n"}, 0, Many), Lit("emi"), WordB>>), Cat(<<WordB, Lit("emi"), NotCls({"\n"}, 0, Many), Lit("nach"), WordB>>)>>),
         "EMI & Loans">>,
       \* /caterer|catering|\bdhaba\b|\bdabha\b|tiffin|bhojan|bhojanalay/i
       <<Alt(<<Lit("caterer"), Lit("catering"), Cat(<<WordB, Lit("dhaba"), WordB>>), Cat(<<WordB, Lit("dabha"), WordB>>), Lit("tiffin"), Lit("bhojan"), Lit("bhojanalay")>>),
         "Food & Dining">>,
       \* /\bchai\b|tea\s*(house|stall|shop)|snack\s*bar|fast\s*food/i
       <<Alt(<<Cat(<<WordB, Lit("chai"), WordB>>), Cat(<<Lit("tea"), WS, Words(<<"house", "stall", "shop">>)>>), Cat(<<Lit("snack"), WS, Lit("bar")>>), Cat(<<Lit("fast"), WS, Lit("food")>>)>>),
         "Food & Dining">>,
       \* /bakery|sweet\s*(shop|mart)|mithai|confection/i
       <<Alt(<<Lit("bakery"), Cat(<<Lit("sweet"), WS, Words(<<"shop", "mart">>)>>), Lit("mithai"), Lit("confection")>>),
         "Food & Dining">>,
       \* /kirana|provision\s*(store|shop)|general\s*store/i
       <<Alt(<<Lit("kirana"), Cat(<<Lit("provision"), WS, Words(<<"store", "shop">>)>>), Cat(<<Lit("general"), WS, Lit("store")>>)>>),
         "Groceries">>,
       \* /\brent\b|\blease\b|\btenancy\b/i
       <<Alt(<<Cat(<<WordB, Lit("rent"), WordB>>), Cat(<<WordB, Lit("lease"), WordB>>), Cat(<<WordB, Lit("tenancy"), WordB>>)>>),
         "Housing & Rent">>,
       \* /\bpg\b.*rent|paying\s*guest/i
       <<Alt(<<Cat(<<WordB, Lit("pg"), WordB, NotCls({"\n"}, 0, Many), Lit("rent")>>), Cat(<<Lit("paying"), WS, Lit("guest")>>)>>),
         "Housing & Rent">>,
       \* /society|maintenance\s*(fee|charg)|hsg\s*soc|housing\s*soc|apartment|flat\s*no/i
       <<Alt(<<Lit("society"), Cat(<<Lit("maintenance"), WS, Words(<<"fee", "charg">>)>>), Cat(<<Lit("hsg"), WS, Lit("soc")>>), Cat(<<Lit("housing"), WS, Lit("soc")>>), Lit("apartment"), Cat(<<Lit("flat"), WS, Lit("no")>>)>>),
         "Housing & Rent">>,
       \* /property\s*tax|house\s*tax|municipal\s*tax|\bbrihanmumbai\b|\bnmc\b|\bbmc\b/i
       <<Alt(<<Cat(<<Lit("property"), WS, Lit("tax")>>), Cat(<<Lit("house"), WS, Lit("tax")>>), Cat(<<Lit("municipal"), WS, Lit("tax")>>), Cat(<<WordB, Lit("brihanmumbai"), WordB>>), Cat(<<WordB, Lit("nmc"), WordB>>), Cat(<<WordB, Lit("bmc"), WordB>>)>>),
         "Housing & Rent">>,
       \* /stampduty|stamp\s*duty|registration\s*fee|home\s*regist/i
       <<Alt(<<Lit("stampduty"), Cat(<<Lit("stamp"), WS, Lit("duty")>>), Cat(<<Lit("registration"), WS, Lit("fee")>>), Cat(<<Lit("home"), WS, Lit("regist")>>)>>),
         "Housing & Rent">>,
       \* /\bcharge\b|\bfee\b.*bank|bank.*\bfee\b|annual\s*fee|service\s*charge|\bpenalty\b/i
       <<Alt(<<Cat(<<WordB, Lit("charge"), WordB>>), Cat(<<WordB, Lit("fee"), WordB, NotCls({"\n"}, 0, Many), Lit("bank")>>), Cat(<<Lit("bank"), NotCls({"\n"}, 0, Many), WordB, Lit("fee"), WordB>>), Cat(<<Lit("annual"), WS, Lit("fee")>>), Cat(<<Lit("service"), WS, Lit("charge")>>), Cat(<<WordB, Lit("penalty"), WordB>>)>>),
         "Bank Charges">>,
       \* /\bgst\b|tax\s*deduct|\btds\b|\btcs\b/i
       <<Alt(<<Cat(<<WordB, Lit("gst"), WordB>>), Cat(<<Lit("tax"), WS, Lit("deduct")>>), Cat(<<WordB, Lit("tds"), WordB>>), Cat(<<WordB, Lit("tcs"), WordB>>)>>),
         "Taxes & Govt">>,
       \* /passport|visa\s*fee|\brto\b|\bvahan\b|driving\s*licen|traffic\s*fine|\bechallan\b/i
       <<Alt(<<Lit("passport"), Cat(<<Lit("visa"), WS, Lit("fee")>>), Cat(<<WordB, Lit("rto"), WordB>>), Cat(<<WordB, Lit("vahan"), WordB>>), Cat(<<Lit("driving"), WS, Lit("licen")>>), Cat(<<Lit("traffic"), WS, Lit("fine")>>), Cat(<<WordB, Lit("echallan"), WordB>>)>>),
         "Taxes & Govt">>,
       \* /donat|charity|\bngo\b|foundation|trust\s*(fund)?|relief\s*fund|pm\s*(cares|relief)/i
       <<Alt(<<Lit("donat"), Lit("charity"), Cat(<<WordB, Lit("ngo"), WordB>>), Lit("foundation"), Cat(<<Lit("trust"), WS, Alt(<<Lit("fund"), Lit("")>>)>>), Cat(<<Lit("relief"), WS, Lit("fund")>>), Cat(<<Lit("pm"), WS, Words(<<"cares", "relief">>)>>)>>),
         "Donations">>,
       \* /neft|rtgs/i
       <<Words(<<"neft", "rtgs">>),
         "Transfers">>,
       \* /self\s*transfer|own\s*acct/i
       <<Alt(<<Cat(<<Lit("self"), WS, Lit("transfer")>>), Cat(<<Lit("own"), WS, Lit("acct")>>)>>),
         "Transfers">>,
       \* /sent\s*to|transfer\s*to|trf\s*to/i
       <<Alt(<<Cat(<<Lit("sent"), WS, Lit("to")>>), Cat(<<Lit("transfer"), WS, Lit("to")>>), Cat(<<Lit("trf"), WS, Lit("to")>>)>>),
         "Transfers">> >>

\* the indexes of the CATEGORY_MAP entries whose pattern matches the text
CategoryHits(text) == {k \in 1..Len(CATEGORY_MAP) : Test(RxI(CATEGORY_MAP[k][1]), text)}

\* the label of the first entry that matched
FirstCategory(hits) == Str(CATEGORY_MAP[Min(hits)][2])

\* /@(ok(?:axis|sbi|icici|hdfcbank)|ybl|idfcfirst|indus|federal|axisbank|apl|pthdfc|
\*   ptsbi|ptyes|okbizaxis|okhdfcbank)\b/i
UPI_VPA_RE ==
    RxI(Cat(<<Lit("@"),
              Alt(<<Cat(<<Lit("ok"), Words(<<"axis", "sbi", "icici", "hdfcbank">>)>>),
                    Words(<<"ybl", "idfcfirst", "indus", "federal", "axisbank", "apl",
                            "pthdfc", "ptsbi", "ptyes", "okbizaxis", "okhdfcbank">>)>>),
              WordB>>))

\* /\bUPI\b/i
UpiWordRe == RxI(Cat(<<WordB, Lit("UPI"), WordB>>))

\* UPI_VPA_RE.test(rawDesc) || /\bUPI\b/i.test(rawDesc)
IsUpi(text) == Test(UPI_VPA_RE, text) \/ Test(UpiWordRe, text)

\* /-(GPAY|PAYTM|YBL|OKAXIS|OKSBI|OKICICI|OKHDFCBANK)$/i
VpaSuffixRe ==
    RxI(Cat(<<Lit("-"),
              Words(<<"GPAY", "PAYTM", "YBL", "OKAXIS", "OKSBI", "OKICICI", "OKHDFCBANK">>),
              Eos>>))

\* /[-_][A-Z0-9]{6,}$/i
VpaTokenRe == RxI(Cat(<<Cls({"-", "_"}, 1, 1), Cls(Alnum, 6, Many), Eos>>))

\* rawDesc.split('@')[0]
BeforeAt(text) ==
    IF \E i \in 1..Len(text) : Ch(text, i) = "@" THEN UpiGroup1(text) ELSE text

\* the payee name of pass 2
vpaName(text) ==
    Trim(ReplaceAll(DashRe,
                    ReplaceFirst(VpaTokenRe, ReplaceFirst(VpaSuffixRe, BeforeAt(text), ""), ""),
                    " "))

\* the category of a payee name that matched, else "UPI Transfer", as if a payee
\* that matches nothing fell through to "Other"
CategoryOfPayeeOrOther(hits) == IF hits # {} THEN FirstCategory(hits) ELSE Str("Other")

\* pass 2: the category of the payee name, else "UPI Transfer"
CategoryOfPayee(hits) == IF hits # {} THEN FirstCategory(hits) ELSE Str("UPI Transfer")

\* Math.round of an amount kept in hundredths, in units
MathRound(amount) == (amount + 50) \div 100

\* /flat|room|house|home|hostel|\bpg\b|plot|gala|office\s*rent/i
HousingHintRe ==
    RxI(Alt(<<Lit("flat"), Lit("room"), Lit("house"), Lit("home"), Lit("hostel"),
              Cat(<<WordB, Lit("pg"), WordB>>), Lit("plot"), Lit("gala"),
              Cat(<<Lit("office"), WS, Lit("rent")>>)>>))

\* /\bchq\b|\bcheque\b|\bimps\b|\bclg\b|clearing/i
ChequeHintRe ==
    RxI(Alt(<<Cat(<<WordB, Lit("chq"), WordB>>), Cat(<<WordB, Lit("cheque"), WordB>>),
              Cat(<<WordB, Lit("imps"), WordB>>), Cat(<<WordB, Lit("clg"), WordB>>),
              Lit("clearing")>>))

\* what a large round amount is taken for
RoundAmountCategory(text) ==
    IF Test(HousingHintRe, text) THEN Str("Housing & Rent")
    ELSE IF Test(ChequeHintRe, text) THEN Str("Transfers")
    ELSE Str("Personal Transfer")

\* pass 4: amount && amount >= 5000, Math.round(amount) % 500 === 0
CategoryByAmount(text, amount) ==
    IF amount # 0 /\ amount >= 500000 /\ MathRound(amount) % 500 = 0
    THEN RoundAmountCategory(text) ELSE Str("Other")

\* pass 3: the cleaned merchant name against the table (a raise in
\* cleanMerchantName ends the call), then pass 4
CategoryOfCleaned(text, amount, cleaned) ==
    IF cleaned = Thrown THEN Thrown
    ELSE IF CategoryHits(cleaned.s) # {} THEN FirstCategory(CategoryHits(cleaned.s))
    ELSE CategoryByAmount(text, amount)

\* pass 1 with the hits of the description as written, then pass 2
CategoryAfterRaw(rawDesc, text, amount, hits) ==
    IF hits # {} THEN FirstCategory(hits)
    ELSE IF IsUpi(text) THEN CategoryOfPayee(CategoryHits(vpaName(text)))
    ELSE CategoryOfCleaned(text, amount, cleanMerchantName(rawDesc))

\* getCategory(rawDesc, amount): the name of the category, or that the call raised
getCategory(rawDesc, amount) ==
    IF rawDesc.t \in {"undef", "null"} \/ Falsy(rawDesc) THEN Str("Other")
    ELSE CategoryAfterRaw(rawDesc, ToText(rawDesc), amount, CategoryHits(ToText(rawDesc)))

(***************************************************************************)
(* SpecCategory: getCategory applied to a description and an amount         *)
(***************************************************************************)
\* payments to a UPI handle and with the token UPI, to a person and to a merchant;
\* a handle of a bank that UPI_VPA_RE does not list; narrations that no pattern
\* matches, with and without a housing or a cheque hint; merchants; no
\* description; a description that the sheet holds as a number
CategoryDescs ==
    {Str("rahul.sharma@okaxis"), Str("UPI/RAMESH KUMAR/9876"), Str("uber_rides@ybl"),
     Str("cab_789456@ybl"), Str("UPI-PRIYA-priya_12345678@okicici"),
     Str("rent_pay@unknownbank"), Str("RAVI VERMA"), Str("ROOM ADVANCE RAVI"),
     Str("CLG RAVI VERMA"), Str("MSFT STORE"), Str("SWIGGY ORDER"),
     Str("UPI-SWIGGY-swiggy@ybl"), Str(""), Num(99887700)}

\* amounts in hundredths: none, 4321, 4999.99, 5000, 5000.40, 5000.50, 5250, 10000
CategoryAmounts == {0, 432100, 499999, 500000, 500040, 500050, 525000, 1000000}

InitCategory ==
    /\ arg \in [desc : CategoryDescs, amount : CategoryAmounts]
    /\ res = <<>> /\ fpc = "start"
    /\ IdleMerchant /\ IdleParse /\ IdleDedup /\ IdleUi /\ IdleApp

Categorize ==
    /\ fpc = "start"
    /\ res' = getCategory(arg.desc, arg.amount)
    /\ fpc' = "done"
    /\ UNCHANGED <<arg, merchantVars, parseVars, dedupVars, uiVars, appVars>>

NextCategory == Categorize

SpecCategory == InitCategory /\ [][NextCategory]_vars

(***************************************************************************)
(* Properties of getCategory (SpecCategory)                                *)
(***************************************************************************)
\* a description that is text, not empty, and that no pattern matches as written
Unmatched == arg.desc.t = "str" /\ arg.desc.s # "" /\ CategoryHits(arg.desc.s) = {}

\* the labels of the table that match the payee name taken from the description
PayeeLabels == {CATEGORY_MAP[k][2] : k \in CategoryHits(vpaName(arg.desc.s))}

C22_PayeeWitness ==
    /\ fpc = "done"
    /\ arg.desc = Str("cab_789456@ybl")
    /\ res = Str("Travel")

\* a description that passes 1 to 3 leave without a category
NoPassMatches ==
    /\ Unmatched
    /\ ~IsUpi(arg.desc.s)
    /\ CategoryHits(cleanMerchantName(arg.desc).s) = {}

RoundAmountNames == {"Housing & Rent", "Transfers", "Personal Transfer"}

\* C23: for a description that matches nothing in passes 1 to 3, getCategory
\* returns a round-amount category ("Housing & Rent", "Transfers" or "Personal
\* Transfer") only when the amount is at least 5000 and an exact multiple of 500;
\* every other amount (4321, or 5000.40) yields "Other".
C23_RoundAmountsOnly ==
    (fpc = "done" /\ NoPassMatches) =>
        IF arg.amount >= 500000 /\ arg.amount % 50000 = 0
        THEN res.s \in RoundAmountNames
        ELSE res.s = "Other"

(***************************************************************************)
(* Properties of the loaded files (Spec)                                   *)
(***************************************************************************)
\* C24: on the free plan (isPro false) loadedFiles never holds more than one
\* file, whatever batches were uploaded (several files picked at once included).
C24_FreePlanOneFile == ~isPro => Len(loadedFiles) <= 1

\* C25: no two entries of loadedFiles have the same file name, for every
\* interleaving of upload batches (a batch started while an earlier one still
\* awaits its file read included).
C25_NamesUnique ==
    \A i, j \in 1..Len(loadedFiles) : loadedFiles[i].name = loadedFiles[j].name => i = j

\* the record's debit-side or credit-side amount resolves to a positive number
CarriesAmount(norm) ==
    \/ Positive(parseAmount(getDebitAmt(norm)))
    \/ Positive(parseAmount(getCreditAmt(norm)))

\* C26: every normalized record whose debit-side or credit-side amount resolves to
\* a positive number is exactly one of debit or credit: isDebit and isCredit are
\* never both true, and never both false for such a record.
C26_ExactlyOneDirection ==
    fpc # "start" =>
        \A i \in 1..Len(arg) :
            CarriesAmount(buildNorm(arg[i].cells)) => (res.flags[i].debit # res.flags[i].credit)

(***************************************************************************)
(* The history store (utils/historyDB.js).  The object store is kept as the *)
(* sequence of its records in key order, which is the order getAll gives.   *)
(***************************************************************************)
MAX == 10

\* the session object of the auto-save effect (savedAt, the totals and the date
\* range, which nothing modelled reads, are left out)
Session(id, files) ==
    [id |-> id,
     files |-> [i \in 1..Len(files) |-> [name |-> files[i].name, txCount |-> Len(files[i].data)]],
     loadedFiles |-> files]

IdsOf(list) == {list[i].id : i \in 1..Len(list)}

\* store.delete(id)
StoreDelete(st, id) == WithoutIdAt(st, SelectIdx({i \in 1..Len(st) : st[i].id # id}))

\* store.put(session) as if the key path did not make the keys unique
StorePutBeside(st, session) ==
    InsertAt(st, session, Cardinality({i \in 1..Len(st) : st[i].id <= session.id}))

\* store.put(session): the record of the same key is replaced, a new key is
\* inserted in key order
StorePut(st, session) ==
    InsertAt(StoreDelete(st, session.id), session,
             Cardinality({i \in 1..Len(st) : st[i].id < session.id}))

\* list.sort((a, b) => b.id - a.id)
RECURSIVE ByIdDesc(_)
ByIdDesc(list) ==
    IF list = <<>> THEN <<>>
    ELSE <<list[Min({i \in 1..Len(list) : \A j \in 1..Len(list) : list[j].id <= list[i].id})]>>
         \o ByIdDesc(WithoutIdAt(list, SelectIdx((1..Len(list)) \
                {Min({i \in 1..Len(list) : \A j \in 1..Len(list) : list[j].id <= list[i].id})})))

\* sorted.slice(MAX).forEach(old => store.delete(old.id))
RECURSIVE Pruned(_, _)
Pruned(st, olds) ==
    IF olds = <<>> THEN st ELSE Pruned(StoreDelete(st, olds[1].id), Tail(olds))

PrunedBeyond(st, sorted) == Pruned(st, SubSeq(sorted, MAX + 1, Len(sorted)))

\* the transaction of saveSession: put, getAll, and the deletes of its onsuccess
saveSession(st, session) ==
    PrunedBeyond(StorePut(st, session), ByIdDesc(StorePut(st, session)))

\* what getAllSessions resolves to
getAllSessions(st) == ByIdDesc(st)

\* the transaction of deleteSession
deleteSession(st, id) == StoreDelete(st, id)

(***************************************************************************)
(* SpecStore: sessions saved to, listed from and deleted from a store that  *)
(* earlier sittings filled                                                  *)
(***************************************************************************)
MaxId == 11

\* what an earlier sitting saved, and what this one saves
KeptFiles == <<StoredFile("a.csv", 0, <<>>)>>

FreshFiles == <<StoredFile("a.csv", 0, <<>>), StoredFile("b.xlsx", 0, <<>>)>>

\* the stores saveSession leaves: at most MAX sessions, of distinct ids
Stores ==
    {[k \in 1..Len(keys) |-> Session(keys[k], KeptFiles)] :
        keys \in {SelectIdx(ids) : ids \in {S \in SUBSET (1..MaxId) : Cardinality(S) <= MAX}}}

InitStore ==
    /\ store \in Stores
    /\ arg = <<>> /\ res = <<>> /\ fpc = "idle" /\ prior = <<>>
    /\ isPro = FALSE /\ error = "" /\ calls = <<>> /\ now = 0 /\ prompted = FALSE
    /\ sessionIdRef = 0 /\ loadingFromHistoryRef = FALSE /\ sessions = <<>> /\ held = 0
    /\ saving = <<>> /\ listing = 0 /\ restored = 0
    /\ IdleMerchant /\ IdleParse /\ IdleDedup /\ IdleLic /\ IdleModal

StoreFrame ==
    UNCHANGED <<isPro, error, calls, now, prompted, sessionIdRef, loadingFromHistoryRef,
                sessions, held, saving, listing, restored, merchantVars, parseVars, dedupVars,
                licVars, modalVars>>

\* a saveSession whose transaction completes
SaveSession ==
    \E id \in 1..MaxId :
        /\ fpc = "idle"
        /\ arg' = Session(id, FreshFiles)
        /\ prior' = store
        /\ store' = saveSession(store, arg')
        /\ fpc' = "saved"
        /\ res' = res
        /\ StoreFrame

GetAllSessions ==
    /\ fpc \in {"idle", "saved"}
    /\ res' = getAllSessions(store)
    /\ fpc' = "listed"
    /\ UNCHANGED <<store, arg, prior>>
    /\ StoreFrame

DeleteSession ==
    \E k \in 1..Len(store) :
        /\ fpc = "idle"
        /\ store' = deleteSession(store, store[k].id)
        /\ UNCHANGED <<arg, res, fpc, prior>>
        /\ StoreFrame

NextStore == SaveSession \/ GetAllSessions \/ DeleteSession

SpecStore == InitStore /\ [][NextStore]_vars

(***************************************************************************)
(* Properties of the history store (SpecStore)                             *)
(***************************************************************************)
\* the ids the store should keep: the MAX largest of those present and the saved
Largest(ids) == {i \in ids : Cardinality({j \in ids : j > i}) < MAX}

RecordOf(list, id) == list[CHOOSE i \in 1..Len(list) : list[i].id = id]

\* the store after saveSession(arg) on the store `before`
SavedInto(before, after) ==
    /\ Len(after) <= MAX
    /\ Cardinality(IdsOf(after)) = Len(after)
    /\ IdsOf(after) = Largest(IdsOf(before) \cup {arg.id})
    /\ \A i \in 1..Len(after) :
          after[i] = (IF after[i].id = arg.id THEN arg ELSE RecordOf(before, after[i].id))
    /\ arg.id \in IdsOf(before) => Len(after) = Len(before)

\* the listing holds the sessions of the store, in strictly descending id order
ListedFrom(st, listed) ==
    /\ Len(listed) = Len(st)
    /\ \A i \in 1..Len(st) : \E j \in 1..Len(listed) : listed[j] = st[i]
    /\ \A i \in 1..(Len(listed) - 1) : listed[i].id > listed[i + 1].id

\* C28: after every completed saveSession the store holds at most 10 sessions, the
\* sessions with the 10 largest ids among those present and the saved one; saving
\* under an id that exists replaces that entry instead of adding one; and
\* getAllSessions returns the sessions in strictly descending id order.
C28_StoreKeepsTenNewest ==
    /\ fpc = "saved" => SavedInto(prior, store)
    /\ fpc = "listed" => ListedFrom(store, res)

\* a full store took an eleventh session and dropped its oldest
C28_Witness ==
    /\ fpc = "saved"
    /\ Len(prior) = MAX
    /\ arg.id \notin IdsOf(prior)
    /\ Len(store) = MAX
    /\ arg.id \in IdsOf(store)
    /\ IdsOf(prior) \ IdsOf(store) = {Min(IdsOf(prior))}

\* a session saved under an id the store holds replaced the record of that id
C28_ReplaceWitness ==
    /\ fpc = "saved"
    /\ arg.id \in IdsOf(prior)
    /\ RecordOf(prior, arg.id) # arg
    /\ RecordOf(store, arg.id) = arg

(***************************************************************************)
(* SpecHistory: the component with its history.  A handler runs together    *)
(* with the auto-save effect of the render it causes; the transaction of a  *)
(* saveSession and the answer of a getAllSessions arrive in later tasks.     *)
(* A file is uploaded alone and its read completes before the next event.   *)
(***************************************************************************)
MaxClock == 5

\* the auto-save effect, run with the loadedFiles of the render, the two refs
\* and the clock: the refs it leaves and the session it hands to saveSession
AutoSave(files, sid, skip, stamp) ==
    IF Len(files) = 0
    THEN [sessionIdRef |-> 0, loadingFromHistoryRef |-> skip, saved |-> <<>>]
    ELSE IF skip
    THEN [sessionIdRef |-> sid, loadingFromHistoryRef |-> FALSE, saved |-> <<>>]
    ELSE [sessionIdRef |-> IF sid = 0 THEN stamp ELSE sid,
          loadingFromHistoryRef |-> FALSE,
          saved |-> <<Session(IF sid = 0 THEN stamp ELSE sid, files)>>]

\* the effect has run: saveSession(session) is called when it built a session
Effected(out) ==
    /\ sessionIdRef' = out.sessionIdRef
    /\ loadingFromHistoryRef' = out.loadingFromHistoryRef
    /\ saving' = saving \o out.saved

\* the files the behaviours upload: two that load and one that is refused
HistoryFiles == {f \in FilePool : f.name \in {"a.csv", "b.xlsx", "f.pdf"}}

\* what earlier sittings left in the store: sessions 1 and 2
EarlierStores ==
    {<<>>} \cup {<<Session(1, a)>> : a \in LoadedSets \ {<<>>}}
           \cup {<<Session(1, a), Session(2, b)>> : a, b \in LoadedSets \ {<<>>}}

InitHistory ==
    /\ isPro \in BOOLEAN
    /\ store \in EarlierStores
    /\ loadedFiles = <<>> /\ ledger = <<>> /\ dpc = "idle"
    /\ error = "" /\ calls = <<>> /\ now = 2 /\ prompted = FALSE /\ prior = <<>>
    /\ sessionIdRef = 0 /\ loadingFromHistoryRef = FALSE /\ sessions = <<>> /\ held = 0
    /\ saving = <<>> /\ listing = 1 /\ restored = 0
    /\ IdleMerchant /\ IdleParse /\ IdleFun /\ IdleLic /\ IdleModal

HistoryFrame ==
    UNCHANGED <<isPro, calls, prior, ledger, dpc, merchantVars, parseVars, funVars,
                licVars, modalVars>>

\* setLoadedFiles with an array of its own, and the effect of the render
Changed(files) ==
    /\ loadedFiles' = files
    /\ held' = 0
    /\ restored' = (IF files = <<>> THEN 0 ELSE restored)
    /\ Effected(AutoSave(files, sessionIdRef, loadingFromHistoryRef, now'))

Unchanged == UNCHANGED <<loadedFiles, held, restored, sessionIdRef, loadingFromHistoryRef, saving>>

\* handleFiles with one file
UploadOne(file, reached, out) ==
    /\ error' = (IF reached.at = 1 THEN ErrorAfterParse(reached.error, file, out)
                 ELSE reached.error)
    /\ IF reached.at = 1 /\ out.err = ""
       THEN Changed(AfterParse(loadedFiles, file, now', out))
       ELSE Unchanged

Upload ==
    \E file \in HistoryFiles :
        /\ now < MaxClock
        /\ now' = now + 1
        /\ IF FreePlanFull(isPro, loadedFiles)
           THEN error' = "" /\ prompted' = TRUE /\ Unchanged
           ELSE /\ UploadOne(file, LoopUntilRead(<<file>>, loadedFiles, 1, ""),
                             ParseContent(file))
                /\ prompted' = prompted
        /\ UNCHANGED <<store, sessions, listing>>
        /\ HistoryFrame

\* removeFile(id): prev.filter gives an array of its own
Remove ==
    \E k \in 1..Len(loadedFiles) :
        /\ now < MaxClock
        /\ now' = now + 1
        /\ Changed(WithoutId(loadedFiles, loadedFiles[k].id))
        /\ UNCHANGED <<error, prompted, store, sessions, listing>>
        /\ HistoryFrame

\* handleLoadSession(session): the refs are set, and the effect runs only when
\* setLoadedFiles was handed another array than the one the state holds
Loaded(session) ==
    IF held # session.id
    THEN /\ loadedFiles' = session.loadedFiles
         /\ Effected(AutoSave(session.loadedFiles, session.id, TRUE, now'))
    ELSE /\ sessionIdRef' = session.id
         /\ loadingFromHistoryRef' = TRUE
         /\ UNCHANGED <<loadedFiles, saving>>

LoadSession ==
    \E k \in 1..Len(sessions) :
        /\ now < MaxClock
        /\ now' = now + 1
        /\ Loaded(sessions[k])
        /\ held' = sessions[k].id
        /\ restored' = sessions[k].id
        /\ error' = ""
        /\ UNCHANGED <<prompted, store, sessions, listing>>
        /\ HistoryFrame

\* the transaction of the oldest saveSession call completes; its then() calls
\* getAllSessions
SaveCompletes ==
    /\ saving # <<>>
    /\ store' = saveSession(store, Head(saving))
    /\ saving' = Tail(saving)
    /\ listing' = listing + 1
    /\ UNCHANGED <<loadedFiles, held, restored, sessionIdRef, loadingFromHistoryRef,
                   sessions, error, prompted, now>>
    /\ HistoryFrame

\* a getAllSessions resolves: setSessions with records read anew
ListCompletes ==
    /\ listing > 0
    /\ sessions' = getAllSessions(store)
    /\ listing' = listing - 1
    /\ held' = 0
    /\ UNCHANGED <<loadedFiles, restored, sessionIdRef, loadingFromHistoryRef,
                   store, saving, error, prompted, now>>
    /\ HistoryFrame

NextHistory == Upload \/ Remove \/ LoadSession \/ SaveCompletes \/ ListCompletes

SpecHistory == InitHistory /\ [][NextHistory]_vars

(***************************************************************************)
(* Properties of the history (SpecHistory)                                 *)
(***************************************************************************)
\* a restore hands nothing to saveSession and leaves the store as it is
RestoreWritesNothing == LoadSession => (saving' = saving /\ store' = store)

\* a change of the loaded files (to files, not to none) after a restore is
\* handed to saveSession under the id of the session restored
ChangeSavedUnderRestoredId ==
    (restored # 0 /\ ~LoadSession /\ loadedFiles' # loadedFiles /\ loadedFiles' # <<>>)
        => saving' = Append(saving, Session(restored, loadedFiles'))

\* C27: restoring a session does not write to the history store, and every later
\* change to the loaded files is saved under the restored session's id; the
\* skip-save flag the restore sets suppresses that one auto-save and no later one.
C27_RestoreThenSaveUnderSameId ==
    [][RestoreWritesNothing /\ ChangeSavedUnderRestoredId]_vars

(***************************************************************************)
(* The licensing server.  A digest is kept as the text of what was digested *)
(* under which key, so that two digests are equal exactly when key and data *)
(* are; a license key is kept as the text it is derived from, untruncated.  *)
(***************************************************************************)
\* `${v}` in a template literal
TemplateText(v) == IF v.t = "undef" THEN "undefined" ELSE ToText(v)

\* crypto.createHmac('sha256', key).update(data).digest('hex')
Hmac(key, data) == "hmac(" \o key \o ";" \o data \o ")"

\* generateLicenseKey(email, orderId) at the time stamp
generateLicenseKey(email, orderId, stamp) ==
    "KEY(" \o TemplateText(email) \o ":" \o TemplateText(orderId) \o ":" \o NatToStr(stamp) \o ")"

\* setLicense(key, record): a no-op when Redis is not configured
setLicense(recs, redis, key, record) ==
    IF redis THEN Put(recs, "license:" \o key, record) ELSE recs

\* sendLicenseEmail(email, key): skipped when SMTP is not configured
sendLicenseEmail(mails, smtp, email, key) ==
    IF smtp THEN Append(mails, [to |-> email, key |-> key]) ELSE mails

Reply(status, key) == [status |-> status, key |-> key]

\* what a handler leaves: its response (status 0: none was sent), the records
\* and the mails
Handled(reply, recs, mails) == [reply |-> reply, licenses |-> recs, outbox |-> mails]

\* the key is stored, mailed and answered with (the webhook answers without it)
Issued(recs, mails, cfg, email, orderId, key, answered) ==
    Handled(Reply(200, IF answered THEN key ELSE ""),
            setLicense(recs, cfg.redis, key, [email |-> email, orderId |-> orderId, valid |-> TRUE]),
            sendLicenseEmail(mails, cfg.smtp, email, key))

\* payment.notes?.email || payment.email
PaymentEmail(payment) ==
    IF payment.notesEmail.t = "undef" \/ Falsy(payment.notesEmail)
    THEN payment.email ELSE payment.notesEmail

\* process.env.RAZORPAY_WEBHOOK_SECRET || ''
WebhookSecret(cfg) == IF cfg.webhookSecret.t = "undef" THEN "" ELSE cfg.webhookSecret.s

\* POST /api/webhook after its signature test: the event is parsed, and a key is
\* issued for payment.captured; status -1 stands for a raise outside any try
WebhookVerified(req, cfg, recs, mails, stamp) ==
    IF req.body.event.type = "invalid" THEN Handled(Reply(-1, ""), recs, mails)
    ELSE IF req.body.event.type = "payment.captured"
    THEN Issued(recs, mails, cfg, PaymentEmail(req.body.event), req.body.event.orderId,
                generateLicenseKey(PaymentEmail(req.body.event), req.body.event.orderId, stamp),
                FALSE)
    ELSE Handled(Reply(200, ""), recs, mails)

\* POST /api/webhook as if the signature were not compared
WebhookUnchecked(req, cfg, recs, mails, stamp) ==
    IF ~req.json THEN Handled(Reply(-1, ""), recs, mails)
    ELSE WebhookVerified(req, cfg, recs, mails, stamp)

\* POST /api/webhook: a body that express.raw did not take (another content
\* type) is no Buffer and update(req.body) raises
Webhook(req, cfg, recs, mails, stamp) ==
    IF ~req.json THEN Handled(Reply(-1, ""), recs, mails)
    ELSE IF req.sig # Str(Hmac(WebhookSecret(cfg), req.body.raw))
    THEN Handled(Reply(400, ""), recs, mails)
    ELSE WebhookVerified(req, cfg, recs, mails, stamp)

\* `${razorpay_order_id}|${razorpay_payment_id}`
SignedBody(req) == TemplateText(req.orderId) \o "|" \o TemplateText(req.paymentId)

\* POST /api/verify-payment: createHmac raises on a key that is undefined, and the
\* catch answers 500
VerifyPayment(req, cfg, recs, mails, stamp) ==
    IF cfg.keySecret.t = "undef" THEN Handled(Reply(500, ""), recs, mails)
    ELSE IF Str(Hmac(cfg.keySecret.s, SignedBody(req))) # req.sig
    THEN Handled(Reply(400, ""), recs, mails)
    ELSE Issued(recs, mails, cfg, req.email, req.orderId,
                generateLicenseKey(req.email, req.orderId, stamp), TRUE)

(***************************************************************************)
(* SpecLicense: requests to /api/webhook and /api/verify-payment            *)
(***************************************************************************)
MaxRequests == 2

Captured(email, orderId) ==
    [type |-> "payment.captured", notesEmail |-> email, email |-> Undef, orderId |-> orderId]

\* the bodies posted to the webhook: their bytes and what JSON.parse makes of them
WebhookBodies ==
    {[raw |-> "{captured order_1 a@x.in}", event |-> Captured(Str("a@x.in"), Str("order_1"))],
     [raw |-> "{failed order_2}",
      event |-> [type |-> "payment.failed", notesEmail |-> Undef, email |-> Undef,
                 orderId |-> Str("order_2")]],
     [raw |-> "{captured", event |-> [type |-> "invalid"]]}

\* no signature header, an empty one, a guess, and digests under the secret, under
\* the empty secret and under another one
WebhookRequests ==
    {[path |-> "webhook", json |-> j, body |-> b, sig |-> s] :
        j \in BOOLEAN, b \in WebhookBodies,
        s \in {Undef, Str(""), Str("deadbeef")}}
    \cup {[path |-> "webhook", json |-> j, body |-> b, sig |-> Str(Hmac(k, b.raw))] :
            j \in BOOLEAN, b \in WebhookBodies, k \in {"whsec", "", "other"}}

VerifyRequests ==
    {[path |-> "verify-payment", orderId |-> o, paymentId |-> Str("pay_1"),
      email |-> Str("a@x.in"), sig |-> s] :
        o \in {Undef, Str("order_1")},
        s \in {Undef, Str("deadbeef"), Str(Hmac("rzp_secret", "order_1|pay_1")),
               Str(Hmac("other", "order_1|pay_1"))}}

\* the configurations the server starts in
Environments ==
    [keySecret : {Undef, Str("rzp_secret")}, webhookSecret : {Undef, Str("whsec")},
     redis : BOOLEAN, smtp : BOOLEAN]

InitLicense ==
    /\ env \in Environments
    /\ licenses = <<>> /\ outbox = <<>>
    /\ arg = <<>> /\ res = <<>> /\ fpc = "idle" /\ prior = <<>> /\ now = 0
    /\ isPro = FALSE /\ error = "" /\ calls = <<>> /\ prompted = FALSE
    /\ IdleMerchant /\ IdleParse /\ IdleDedup /\ IdleHist /\ IdleModal

LicenseFrame ==
    UNCHANGED <<env, isPro, error, calls, prompted, merchantVars, parseVars, dedupVars,
                histVars, modalVars>>

\* the request has been handled; a raise outside any try leaves the request
\* without a response, or with the 500 of the error handler
Served(req, out) ==
    /\ arg' = req
    /\ prior' = [licenses |-> licenses, outbox |-> outbox]
    /\ licenses' = out.licenses
    /\ outbox' = out.outbox
    /\ res' \in (IF out.reply.status = -1 THEN {Reply(0, ""), Reply(500, "")} ELSE {out.reply})
    /\ fpc' = "replied"

PostWebhook ==
    \E req \in WebhookRequests :
        /\ now < MaxRequests
        /\ now' = now + 1
        /\ Served(req, Webhook(req, env, licenses, outbox, now'))
        /\ LicenseFrame

PostVerifyPayment ==
    \E req \in VerifyRequests :
        /\ now < MaxRequests
        /\ now' = now + 1
        /\ Served(req, VerifyPayment(req, env, licenses, outbox, now'))
        /\ LicenseFrame

NextLicense == PostWebhook \/ PostVerifyPayment

SpecLicense == InitLicense /\ [][NextLicense]_vars

(***************************************************************************)
(* Properties of the licensing server (SpecLicense)                        *)
(***************************************************************************)
\* the request carries the digest of what it signs under the endpoint's secret
SignatureMatches(req) ==
    IF req.path = "webhook"
    THEN req.sig = Str(Hmac(WebhookSecret(env), req.body.raw))
    ELSE env.keySecret.t = "str" /\ req.sig = Str(Hmac(env.keySecret.s, SignedBody(req)))

\* the request stored no license, sent no mail and was answered without a key
IssuedNothing == licenses = prior.licenses /\ outbox = prior.outbox /\ res.key = ""

\* a request whose signature is missing or does not match issues nothing
UnsignedIssuesNothing == (fpc = "replied" /\ ~SignatureMatches(arg)) => IssuedNothing

\* a request that was signed got its key stored, mailed and returned
SignedIssues ==
    /\ fpc = "replied"
    /\ arg.path = "verify-payment"
    /\ SignatureMatches(arg)
    /\ res.status = 200 /\ res.key # ""
    /\ Len(licenses) = Len(prior.licenses) + 1
    /\ Len(outbox) = Len(prior.outbox) + 1

\* C29: a /api/webhook or /api/verify-payment request with a missing or
\* mismatching signature gets a 400 response and causes no setLicense call, no
\* email and no key in the response.
C29_UnsignedRefused ==
    (fpc = "replied" /\ ~SignatureMatches(arg)) => (res.status = 400 /\ IssuedNothing)

(***************************************************************************)
(* The upgrade modal: App, UpgradeModal and its Activate tab                *)
(***************************************************************************)
\* the names ActivateTab's body can call: its props, nothing else of that kind is
\* declared in the module
ActivateTabProps == {"onSuccess", "onError"}

\* the delay of the timeout set after activation, in milliseconds
CloseDelay == 2200

\* the records of the server's license store, by key
ServerLicenses == <<[k |-> "AAAA-1111", v |-> [valid |-> TRUE, email |-> "a@x.in", since |-> "2026"]],
                    [k |-> "CCCC-3333", v |-> [valid |-> FALSE, email |-> "c@x.in", since |-> "2025"]]>>

\* POST /api/validate-key for a key the client sent
validateKey(key) ==
    IF ToUpper(Trim(key)) \in Keys(ServerLicenses)
    THEN Get(ServerLicenses, ToUpper(Trim(key)))
    ELSE [valid |-> FALSE, email |-> "", since |-> ""]

\* key.trim().toUpperCase()
Cleaned(key) == ToUpper(Trim(key))

EnterKeyMessage == "Enter your license key"
InvalidKeyMessage == "Invalid or expired key. Check for typos or contact support."
ServerErrorMessage == "Server error"

(***************************************************************************)
(* SpecModal: the user opens the modal, activates a key, and time passes    *)
(***************************************************************************)
MaxMounts == 3
MaxPending == 2
TypedKeys == {"", " aaaa-1111 ", "BBBB-2222", "cccc-3333"}

InitModal ==
    /\ isPro = FALSE /\ error = "" /\ calls = <<>> /\ prompted = FALSE
    /\ arg = <<>> /\ res = <<>> /\ fpc = "idle" /\ prior = <<>> /\ now = 0
    /\ IdleMerchant /\ IdleParse /\ IdleDedup /\ IdleHist /\ IdleLic /\ IdleModal

ModalFrame ==
    UNCHANGED <<error, calls, prompted, arg, res, fpc, prior, merchantVars, parseVars,
                dedupVars, histVars, licVars>>

\* a freshly mounted ActivateTab
FreshTab == keyText' = "" /\ loading' = FALSE /\ activated' = FALSE

\* UpgradeModal is unmounted with everything in it
Unmounted ==
    /\ upgradeOpen' = FALSE
    /\ tab' = "buy" /\ modalError' = "" /\ FreshTab
    /\ mounted' = [modal |-> 0, tab |-> 0]

\* onUpgrade: setUpgradeOpen(true) mounts UpgradeModal on its Buy tab
OpenModal ==
    /\ ~upgradeOpen /\ now < MaxMounts
    /\ now' = now + 1
    /\ upgradeOpen' = TRUE
    /\ mounted' = [modal |-> now', tab |-> 0]
    /\ UNCHANGED <<isPro, proEmail, tab, modalError, keyText, loading, activated, awaiting,
                   timers, license>>
    /\ ModalFrame

\* the user clicks the backdrop or the close button: onClose of UpgradeModal
CloseModal ==
    /\ upgradeOpen
    /\ Unmounted
    /\ UNCHANGED <<isPro, proEmail, awaiting, timers, license, now>>
    /\ ModalFrame

\* a tab button: setTab(t); setError(''); the other tab's component is mounted anew
SetTab ==
    \E t \in {"buy", "activate"} :
        /\ upgradeOpen
        /\ t # tab => now < MaxMounts
        /\ tab' = t
        /\ modalError' = ""
        /\ IF t = tab
           THEN UNCHANGED <<keyText, loading, activated, mounted, now>>
           ELSE /\ FreshTab
                /\ now' = now + 1
                /\ mounted' = [mounted EXCEPT !.tab = IF t = "activate" THEN now' ELSE 0]
        /\ UNCHANGED <<upgradeOpen, isPro, proEmail, awaiting, timers, license>>
        /\ ModalFrame

\* the input's onChange: setKey(e.target.value)
TypeKey ==
    \E k \in TypedKeys :
        /\ upgradeOpen /\ tab = "activate" /\ ~activated
        /\ keyText' = k
        /\ UNCHANGED <<upgradeOpen, isPro, proEmail, tab, modalError, loading, activated,
                       awaiting, timers, license, mounted, now>>
        /\ ModalFrame

\* handleActivate up to its first await (the button, or Enter in the input)
Activate ==
    /\ upgradeOpen /\ tab = "activate" /\ ~activated
    /\ Len(awaiting) + Len(timers) < MaxPending
    /\ IF Cleaned(keyText) = ""
       THEN /\ modalError' = EnterKeyMessage
            /\ UNCHANGED <<loading, awaiting>>
       ELSE /\ loading' = TRUE
            /\ awaiting' = Append(awaiting, [key |-> Cleaned(keyText), modal |-> mounted.modal,
                                             tab |-> mounted.tab])
            /\ UNCHANGED modalError
    /\ UNCHANGED <<upgradeOpen, isPro, proEmail, tab, keyText, activated, timers, license,
                   mounted, now>>
    /\ ModalFrame

\* the state setters of a component that is no longer mounted do nothing
OnModal(call, value, old) == IF mounted.modal = call.modal THEN value ELSE old
OnTab(call, value, old) == IF mounted.tab = call.tab THEN value ELSE old

\* the rest of handleActivate for a valid key: saveLicense, onSuccess (handleSuccess
\* and App's handleActivated), setActivated(true), setTimeout, and the finally
ActivationSucceeds(call, result) ==
    /\ license' = [id |-> "license", key |-> call.key, email |-> result.email,
                   since |-> result.since]
    /\ modalError' = OnModal(call, "", modalError)
    /\ isPro' = TRUE
    /\ proEmail' = result.email
    /\ activated' = OnTab(call, TRUE, activated)
    /\ timers' = Append(timers, [after |-> CloseDelay, calls |-> "onClose"])
    /\ loading' = OnTab(call, FALSE, loading)

\* the rest of handleActivate when the await raised: onError, and the finally
ActivationFails(call, message) ==
    /\ modalError' = OnModal(call, message, modalError)
    /\ loading' = OnTab(call, FALSE, loading)
    /\ UNCHANGED <<license, isPro, proEmail, activated, timers>>

\* validateKeyOnServer resolves or rejects, and handleActivate runs to its end
ValidateReturns ==
    \E i \in 1..Len(awaiting), ok \in BOOLEAN :
        /\ awaiting' = SubSeq(awaiting, 1, i - 1) \o SubSeq(awaiting, i + 1, Len(awaiting))
        /\ IF ~ok THEN ActivationFails(awaiting[i], ServerErrorMessage)
           ELSE IF ~validateKey(awaiting[i].key).valid
           THEN ActivationFails(awaiting[i], InvalidKeyMessage)
           ELSE ActivationSucceeds(awaiting[i], validateKey(awaiting[i].key))
        /\ UNCHANGED <<upgradeOpen, tab, keyText, mounted, now>>
        /\ ModalFrame

\* the timeout's callback runs: () => onClose(), with onClose looked up in
\* ActivateTab; a name that is not there raises a ReferenceError in the callback
TimerFires ==
    /\ timers # <<>>
    /\ timers' = Tail(timers)
    /\ IF Head(timers).calls \in ActivateTabProps /\ upgradeOpen
       THEN Unmounted
       ELSE UNCHANGED <<upgradeOpen, tab, modalError, keyText, loading, activated, mounted>>
    /\ UNCHANGED <<isPro, proEmail, awaiting, license, now>>
    /\ ModalFrame

NextModal ==
    \/ OpenModal
    \/ CloseModal
    \/ SetTab
    \/ TypeKey
    \/ Activate
    \/ ValidateReturns
    \/ TimerFires

SpecModal == InitModal /\ [][NextModal]_vars

\* the server answers every request and every timeout set fires; the user need
\* not do anything
SpecModalLive == SpecModal /\ WF_vars(ValidateReturns) /\ WF_vars(TimerFires)

(***************************************************************************)
(* Properties of the upgrade modal                                         *)
(***************************************************************************)
\* a step in which a key was validated for the Activate tab still on screen
ValidatedOnScreen ==
    /\ Len(timers') = Len(timers) + 1
    /\ \E i \in 1..Len(awaiting) :
        /\ awaiting' = SubSeq(awaiting, 1, i - 1) \o SubSeq(awaiting, i + 1, Len(awaiting))
        /\ awaiting[i].tab = mounted.tab

\* validating a key shows the tab's success screen, unlocks Pro and stores the license
SuccessScreenShown ==
    [][ValidatedOnScreen => (activated' /\ isPro' /\ license'.key # "" /\ upgradeOpen')]_vars

\* a timeout that fires leaves the modal as it is
TimerClosesNothing ==
    [][(timers # <<>> /\ timers' = Tail(timers) /\ awaiting' = awaiting)
        => upgradeOpen' = upgradeOpen]_vars

\* the success screen is up
SuccessScreenUp == upgradeOpen /\ activated

\* C30: after a license key is successfully validated in the Activate tab, the
\* tab shows its success screen and the upgrade modal is then closed
\* automatically after the delay, without any further user action.
C30_ActivatedModalCloses == SuccessScreenUp ~> ~upgradeOpen

====
